---- MODULE Spec2Model ----
(***************************************************************************)
(* Model of the import-hawkeye pipeline: the type detector                 *)
(* (app/detector.py), the schema registry (app/schemas), the transformer   *)
(* (app/transform.py), the stage-then-merge loader                         *)
(* (app/bigquery_loader.py), the conductor (app/conductor.py) and the      *)
(* front ends (app/main.py, app/cli.py), the notifier                      *)
(* (app/discord_hook.py) and the watcher's chunked upload (watcher.py).    *)
(*                                                                         *)
(* Eight specifications share the variables:                               *)
(*   SpecDetect      detect_data_type, then get_schema, on bounded column  *)
(*                   lists                                                 *)
(*   SpecKey         the MERGE ON clause applied to pairs of rows          *)
(*   Spec            conductor.run over an archive, loading into a         *)
(*                   warehouse; the CLI's exit code in dry-run mode        *)
(*   SpecMain        the Cloud Function entry point main over an archive   *)
(*   SpecConcurrent  two invocations of load_to_bigquery on one            *)
(*                   destination table                                     *)
(*   SpecLoad        one direct call of load_to_bigquery                   *)
(*   SpecTransform   clean_dataframe on one raw table                      *)
(*   SpecWatcher     chunk_and_upload on one CSV                           *)
(***************************************************************************)
EXTENDS Integers, Sequences, FiniteSets, TLC

VARIABLES
    columns,      \* detector input: the list of CSV header names
    detection,    \* detector outcome for `columns`
    key_in,       \* ON-clause input: data type, destination row t, staged row s
    key_match,    \* ON-clause outcome for key_in
    pc,           \* position of conductor.run / load_to_bigquery
    dry_run,      \* run's dry_run argument
    n_files,      \* len(csv_files) returned by extract_csv_files
    idx,          \* number of csv_files entries the loop has finished
    processed,    \* PipelineResult.processed
    total_rows,   \* PipelineResult.total_rows
    cur,          \* the ProcessedCSV being built by _process_single_csv
    call,         \* the running load_to_bigquery call (df, data_type, table, ...)
    prev_call,    \* the load_to_bigquery call before it, if it returned
    dest,         \* warehouse: destination table name -> [exists, rows]
    staging,      \* warehouse: destination table name -> its staging table
    schema_result,\* get_schema outcome for the detected data type
    response,     \* what the front end returned: main's status, the CLI's exit code
    calls,        \* concurrent load_to_bigquery invocations: id -> call frame
    transform_in, \* transformer input: data type and raw DataFrame
    transform_out,\* clean_dataframe outcome for transform_in
    webhook,      \* what happened to the outbound Discord notification
    watch         \* the watcher's chunk_and_upload call

vars == <<columns, detection, key_in, key_match, pc, dry_run, n_files, idx,
          processed, total_rows, cur, call, prev_call, dest, staging,
          schema_result, response, calls, transform_in, transform_out,
          webhook, watch>>

\* The variables of the transformer, notifier and watcher specifications.
sideVars == <<transform_in, transform_out, webhook, watch>>

\* What the pure specifications (SpecDetect, SpecKey) leave alone.
runVars == <<pc, dry_run, n_files, idx, processed, total_rows, cur, call,
             prev_call, dest, staging, response, calls, sideVars>>

(***************************************************************************)
(* Bounds                                                                  *)
(***************************************************************************)
MaxCols == 3      \* longest column list handed to the detector
MaxTables == 2    \* CSV files in one archive

None == "None"    \* Python None
NULL == "<NULL>"  \* SQL NULL / pandas NaN, NaT, None cell

(***************************************************************************)
(* app/detector.py                                                         *)
(***************************************************************************)
DataType == {"vhf", "gps", "airdefense", "skytrace", "port_events", "vessel_history"}

\* DETECTION_RULES in declaration (dict insertion) order.
DETECTION_RULES ==
    << [data_type |-> "vessel_history",
        required_any |-> <<"Built Year", "Speed Knots", "Navigation Status">>,
        table |-> "shadowfleet_vessel_history"],
       [data_type |-> "port_events",
        required_any |-> <<"Ata", "Port Name", "Duration Seconds">>,
        table |-> "shadowfleet_port_events"],
       [data_type |-> "airdefense",
        required_any |-> <<"Potential Emitter", "Country Of Origin">>,
        table |-> "airdefense"],
       [data_type |-> "skytrace",
        required_any |-> <<"Advertiser Id", "Satellite Provider", "App Id">>,
        table |-> "skytrace"],
       [data_type |-> "vhf",
        required_any |-> <<"Bandwidth", "Signal Type", "Burst Duration">>,
        table |-> "vhf"],
       [data_type |-> "gps",
        required_any |-> <<"Emitter Id", "Max Freq", "Min Freq">>,
        table |-> "gps"] >>

Range(s) == {s[i] : i \in DOMAIN s}

\* matched_cols = [col for col in rules["required_any"] if col in column_set]
MatchedCols(rule, column_set) ==
    SelectSeq(rule.required_any, LAMBDA col : col \in column_set)

RuleFires(rule, column_set) ==
    MatchedCols(rule, column_set) # <<>>

\* Mutant: the scan picks the last rule that fires instead of the first.
LastFiringRule(column_set) ==
    LET firing == {i \in DOMAIN DETECTION_RULES : RuleFires(DETECTION_RULES[i], column_set)}
    IN  IF firing = {} THEN 0 ELSE CHOOSE i \in firing : \A j \in firing : j <= i

\* The for loop of detect_data_type: index of the first rule whose
\* matched_cols is non-empty, 0 when the loop falls through.
FirstFiringRule(column_set) ==
    LET firing == {i \in DOMAIN DETECTION_RULES : RuleFires(DETECTION_RULES[i], column_set)}
    IN  IF firing = {} THEN 0 ELSE CHOOSE i \in firing : \A j \in firing : i <= j

\* Mutant: the scan goes through the columns in list order and returns the
\* first rule a column belongs to.
DetectByColumnOrder(cols) ==
    LET hits == {k \in DOMAIN cols :
                    \E i \in DOMAIN DETECTION_RULES :
                        cols[k] \in Range(DETECTION_RULES[i].required_any)}
        k == CHOOSE h \in hits : \A g \in hits : h <= g
        i == FirstFiringRule({cols[k]})
    IN  IF hits # {}
        THEN [status |-> "returned", data_type |-> DETECTION_RULES[i].data_type,
              table |-> DETECTION_RULES[i].table, exc |-> None]
        ELSE [status |-> "raised", data_type |-> None, table |-> None,
              exc |-> "ValueError"]

\* detect_data_type(columns): returns (data_type, table) or raises ValueError.
detect_data_type(cols) ==
    LET column_set == Range(cols)
        i == FirstFiringRule(column_set)
    IN  IF i # 0
        THEN [status |-> "returned", data_type |-> DETECTION_RULES[i].data_type,
              table |-> DETECTION_RULES[i].table, exc |-> None]
        ELSE [status |-> "raised", data_type |-> None, table |-> None,
              exc |-> "ValueError"]

\* Column names the detector is exercised on: every signature column of
\* every rule and two names that are in no signature.
SignatureColumns == UNION {Range(DETECTION_RULES[i].required_any) : i \in DOMAIN DETECTION_RULES}
ColumnUniverse == SignatureColumns \cup {"Event Time", "Unknown Col 1"}

BoundedSeq(S, n) == UNION {[1..k -> S] : k \in 0..n}

(***************************************************************************)
(* app/schemas: the static per-record-type configuration                   *)
(***************************************************************************)
\* app/schemas/vhf.py, lines 21-142.  The module defines no DEDUP_KEY:
\* has_dedup_key records that the attribute is missing.
VhfSchema ==
    [ columns_to_drop |->
        << "_id", "_index", "Snet Username", "Image Id", "Coordinates" >>,
      column_mapping |->
        << <<"Document ID", "document_id">>, <<"Display Name", "display_name">>, <<"Id", "id">>,
           <<"Pass Group Id", "pass_group_id">>, <<"City", "city">>, <<"Country", "country">>,
           <<"Lat", "latitude">>, <<"Lon", "longitude">>,
           <<"Detected Location", "detected_location">>, <<"Event Time", "event_time">>,
           <<"Last Updated", "last_updated">>, <<"Received At", "received_at">>,
           <<"Source", "source">>, <<"Super Type", "super_type">>, <<"Type", "type">>,
           <<"Constellation", "constellation">>, <<"Bandwidth", "bandwidth">>,
           <<"Burst Duration", "burst_duration">>, <<"Ellipse Area", "ellipse_area">>,
           <<"Estimated Transmit Frequency Hz", "estimated_transmit_frequency_hz">>,
           <<"Frequency", "frequency">>, <<"Num Bursts", "num_bursts">>,
           <<"Orientation", "orientation">>, <<"Semi Major", "semi_major">>,
           <<"Semi Minor", "semi_minor">>, <<"Signal Type", "signal_type">>, <<"Soi", "soi">>,
           <<"Sync Type", "sync_type">>, <<"Version", "version">>, <<"Emitter Id", "emitter_id">> >>,
      timestamp_columns |->
        << "event_time", "last_updated", "received_at" >>,
      float_columns |->
        << "latitude", "longitude", "bandwidth", "burst_duration", "ellipse_area",
           "estimated_transmit_frequency_hz", "frequency", "orientation", "semi_major",
           "semi_minor" >>,
      int_columns |->
        << "id", "num_bursts" >>,
      string_columns |->
        << "document_id", "display_name", "pass_group_id", "city", "country", "detected_location",
           "source", "super_type", "type", "constellation", "signal_type", "soi", "sync_type",
           "version", "emitter_id" >>,
      bigquery_schema |->
        << <<"document_id", "STRING">>, <<"display_name", "STRING">>, <<"id", "INT64">>,
           <<"pass_group_id", "STRING">>, <<"city", "STRING">>, <<"country", "STRING">>,
           <<"latitude", "FLOAT64">>, <<"longitude", "FLOAT64">>,
           <<"detected_location", "STRING">>, <<"event_time", "TIMESTAMP">>,
           <<"event_date", "DATE">>, <<"last_updated", "TIMESTAMP">>,
           <<"received_at", "TIMESTAMP">>, <<"source", "STRING">>, <<"super_type", "STRING">>,
           <<"type", "STRING">>, <<"constellation", "STRING">>, <<"bandwidth", "FLOAT64">>,
           <<"burst_duration", "FLOAT64">>, <<"ellipse_area", "FLOAT64">>,
           <<"estimated_transmit_frequency_hz", "FLOAT64">>, <<"frequency", "FLOAT64">>,
           <<"num_bursts", "INT64">>, <<"orientation", "FLOAT64">>, <<"semi_major", "FLOAT64">>,
           <<"semi_minor", "FLOAT64">>, <<"signal_type", "STRING">>, <<"soi", "STRING">>,
           <<"sync_type", "STRING">>, <<"version", "STRING">>, <<"emitter_id", "STRING">> >>,
      partition_field |->
        "event_date",
      cluster_fields |->
        << "country", "type", "source" >>,
      has_dedup_key |->
        FALSE,
      dedup_key |->
        << >> ]

\* app/schemas/gps.py, lines 21-138.
GpsSchema ==
    [ columns_to_drop |->
        << "_id", "_index", "Snet Username", "Image Id" >>,
      column_mapping |->
        << <<"Document ID", "document_id">>, <<"Display Name", "display_name">>, <<"Id", "id">>,
           <<"Emitter Id", "emitter_id">>, <<"Pass Group Id", "pass_group_id">>,
           <<"City", "city">>, <<"Country", "country">>, <<"Lat", "latitude">>,
           <<"Lon", "longitude">>, <<"Detected Location", "detected_location">>,
           <<"Event Time", "event_time">>, <<"Last Updated", "last_updated">>,
           <<"Received At", "received_at">>, <<"Source", "source">>,
           <<"Super Type", "super_type">>, <<"Type", "type">>,
           <<"Constellation", "constellation">>, <<"Ellipse Area", "ellipse_area">>,
           <<"Frequency", "frequency">>, <<"Max Freq", "max_freq">>, <<"Min Freq", "min_freq">>,
           <<"Num Bursts", "num_bursts">>, <<"Orientation", "orientation">>,
           <<"Semi Major", "semi_major">>, <<"Semi Minor", "semi_minor">>, <<"Soi", "soi">>,
           <<"Version", "version">>, <<"Power Level", "power_level">> >>,
      timestamp_columns |->
        << "event_time", "last_updated", "received_at" >>,
      float_columns |->
        << "latitude", "longitude", "ellipse_area", "frequency", "max_freq", "min_freq",
           "orientation", "semi_major", "semi_minor", "power_level" >>,
      int_columns |->
        << "id", "num_bursts" >>,
      string_columns |->
        << "document_id", "display_name", "emitter_id", "pass_group_id", "city", "country",
           "detected_location", "source", "super_type", "type", "constellation", "soi", "version" >>,
      bigquery_schema |->
        << <<"document_id", "STRING">>, <<"display_name", "STRING">>, <<"id", "INT64">>,
           <<"emitter_id", "STRING">>, <<"pass_group_id", "STRING">>, <<"city", "STRING">>,
           <<"country", "STRING">>, <<"latitude", "FLOAT64">>, <<"longitude", "FLOAT64">>,
           <<"detected_location", "STRING">>, <<"event_time", "TIMESTAMP">>,
           <<"event_date", "DATE">>, <<"last_updated", "TIMESTAMP">>,
           <<"received_at", "TIMESTAMP">>, <<"source", "STRING">>, <<"super_type", "STRING">>,
           <<"type", "STRING">>, <<"constellation", "STRING">>, <<"ellipse_area", "FLOAT64">>,
           <<"frequency", "FLOAT64">>, <<"max_freq", "FLOAT64">>, <<"min_freq", "FLOAT64">>,
           <<"num_bursts", "INT64">>, <<"orientation", "FLOAT64">>, <<"semi_major", "FLOAT64">>,
           <<"semi_minor", "FLOAT64">>, <<"soi", "STRING">>, <<"version", "STRING">>,
           <<"power_level", "FLOAT64">> >>,
      partition_field |->
        "event_date",
      cluster_fields |->
        << "country", "type", "source" >>,
      has_dedup_key |->
        TRUE,
      dedup_key |->
        << "orientation", "semi_major", "semi_minor", "event_time", "event_date" >> ]

\* app/schemas/airdefense.py, lines 21-126.  The module defines no DEDUP_KEY:
\* has_dedup_key records that the attribute is missing.
AirdefenseSchema ==
    [ columns_to_drop |->
        << "_id", "_index", "Snet Username" >>,
      column_mapping |->
        << <<"Document ID", "document_id">>, <<"Display Name", "display_name">>, <<"Id", "id">>,
           <<"Image Id", "image_id">>, <<"Pass Group Id", "pass_group_id">>, <<"City", "city">>,
           <<"Country", "country">>, <<"Lat", "latitude">>, <<"Lon", "longitude">>,
           <<"Event Time", "event_time">>, <<"Last Updated", "last_updated">>,
           <<"Received At", "received_at">>, <<"Source", "source">>,
           <<"Super Type", "super_type">>, <<"Type", "type">>,
           <<"Constellation", "constellation">>, <<"Country Of Origin", "country_of_origin">>,
           <<"Detection Confidence", "detection_confidence">>,
           <<"Potential Emitter", "potential_emitter">>,
           <<"Potential Emitter Nato", "potential_emitter_nato">>,
           <<"Potential Purpose", "potential_purpose">>,
           <<"Potential Weapon System Association", "potential_weapon_system_association">>,
           <<"Orientation", "orientation">>, <<"Semi Major", "semi_major">>,
           <<"Semi Minor", "semi_minor">> >>,
      timestamp_columns |->
        << "event_time", "last_updated", "received_at" >>,
      float_columns |->
        << "latitude", "longitude", "orientation", "semi_major", "semi_minor" >>,
      int_columns |->
        << >>,
      string_columns |->
        << "document_id", "display_name", "id", "image_id", "pass_group_id", "city", "country",
           "source", "super_type", "type", "constellation", "country_of_origin",
           "detection_confidence", "potential_emitter", "potential_emitter_nato",
           "potential_purpose", "potential_weapon_system_association" >>,
      bigquery_schema |->
        << <<"document_id", "STRING">>, <<"display_name", "STRING">>, <<"id", "STRING">>,
           <<"image_id", "STRING">>, <<"pass_group_id", "STRING">>, <<"city", "STRING">>,
           <<"country", "STRING">>, <<"latitude", "FLOAT64">>, <<"longitude", "FLOAT64">>,
           <<"event_time", "TIMESTAMP">>, <<"event_date", "DATE">>,
           <<"last_updated", "TIMESTAMP">>, <<"received_at", "TIMESTAMP">>, <<"source", "STRING">>,
           <<"super_type", "STRING">>, <<"type", "STRING">>, <<"constellation", "STRING">>,
           <<"country_of_origin", "STRING">>, <<"detection_confidence", "STRING">>,
           <<"potential_emitter", "STRING">>, <<"potential_emitter_nato", "STRING">>,
           <<"potential_purpose", "STRING">>, <<"potential_weapon_system_association", "STRING">>,
           <<"orientation", "FLOAT64">>, <<"semi_major", "FLOAT64">>, <<"semi_minor", "FLOAT64">> >>,
      partition_field |->
        "event_date",
      cluster_fields |->
        << "country", "type", "potential_emitter" >>,
      has_dedup_key |->
        FALSE,
      dedup_key |->
        << >> ]

\* app/schemas/skytrace.py, lines 20-241.
SkytraceSchema ==
    [ columns_to_drop |->
        << "Snet Username", "Event Time.1", "Mac.1", "Name.1", "Tech.1" >>,
      column_mapping |->
        << <<"Document ID", "document_id">>, <<"Display Name", "display_name">>,
           <<"City", "city">>, <<"Country", "country">>, <<"Country Code", "country_code">>,
           <<"Latitude", "latitude">>, <<"Longitude", "longitude">>, <<"Altitude", "altitude">>,
           <<"Event Time", "event_time">>, <<"Last Updated", "last_updated">>,
           <<"Event Time Local", "event_time_local">>, <<"Event Timezone", "event_timezone">>,
           <<"First Seen", "first_seen">>, <<"Last Seen", "last_seen">>, <<"Time", "time">>,
           <<"Day Month Year Local", "day_month_year_local">>, <<"Day Of Week", "day_of_week">>,
           <<"Day Of Week Local", "day_of_week_local">>, <<"Hour Local", "hour_local">>,
           <<"Minute Local", "minute_local">>, <<"Source", "source">>,
           <<"Super Type", "super_type">>, <<"Type", "type">>, <<"_id", "_id">>,
           <<"_index", "_index">>, <<"Meta Row Id", "meta_row_id">>,
           <<"Advertiser Id", "advertiser_id">>, <<"App Id", "app_id">>, <<"Carrier", "carrier">>,
           <<"Device Brand", "device_brand">>, <<"Device Model", "device_model">>,
           <<"Platform", "platform">>, <<"User Agent", "user_agent">>, <<"Locale", "locale">>,
           <<"Entity Age", "entity_age">>, <<"Entity Id", "entity_id">>,
           <<"Entity Type", "entity_type">>,
           <<"Event Location Accuracy Confidence", "event_location_accuracy_confidence">>,
           <<"Event Location Accuracy Score", "event_location_accuracy_score">>,
           <<"Horizontal Accuracy", "horizontal_accuracy">>,
           <<"Vertical Accuracy", "vertical_accuracy">>, <<"Heading", "heading">>,
           <<"Speed", "speed">>, <<"Loc At", "loc_at">>, <<"Ip V 4", "ip_v4">>,
           <<"Connected Wifi Vendor Name", "connected_wifi_vendor_name">>,
           <<"Wifi Bssid", "wifi_bssid">>, <<"Wifi Ssid", "wifi_ssid">>, <<"Rssi", "rssi">>,
           <<"Satellite Provider", "satellite_provider">>,
           <<"Satellite Provider Country", "satellite_provider_country">>,
           <<"Satellite Provider Type", "satellite_provider_type">>, <<"Name", "name">>,
           <<"Mac", "mac">>, <<"Tech", "tech">>, <<"Device Os", "device_os">>,
           <<"Device Os Version", "device_os_version">>, <<"Ip V 6", "ip_v6">>,
           <<"Site Id", "site_id">>, <<"Vendor Name", "vendor_name">> >>,
      timestamp_columns |->
        << "event_time", "last_updated", "event_time_local", "first_seen", "last_seen", "time" >>,
      float_columns |->
        << "latitude", "longitude", "altitude", "horizontal_accuracy", "vertical_accuracy",
           "heading", "speed" >>,
      int_columns |->
        << "hour_local", "minute_local", "entity_age", "event_location_accuracy_score", "rssi" >>,
      string_columns |->
        << "document_id", "display_name", "city", "country", "country_code", "event_timezone",
           "day_month_year_local", "day_of_week", "day_of_week_local", "source", "super_type",
           "type", "_id", "_index", "meta_row_id", "advertiser_id", "app_id", "carrier",
           "device_brand", "device_model", "platform", "user_agent", "locale", "entity_id",
           "entity_type", "event_location_accuracy_confidence", "loc_at", "ip_v4",
           "connected_wifi_vendor_name", "wifi_bssid", "wifi_ssid", "satellite_provider",
           "satellite_provider_country", "satellite_provider_type", "name", "mac", "tech",
           "device_os", "device_os_version", "ip_v6", "site_id", "vendor_name" >>,
      bigquery_schema |->
        << <<"document_id", "STRING">>, <<"display_name", "STRING">>, <<"city", "STRING">>,
           <<"country", "STRING">>, <<"country_code", "STRING">>, <<"latitude", "FLOAT64">>,
           <<"longitude", "FLOAT64">>, <<"altitude", "FLOAT64">>, <<"event_time", "TIMESTAMP">>,
           <<"event_date", "DATE">>, <<"last_updated", "TIMESTAMP">>,
           <<"event_time_local", "TIMESTAMP">>, <<"event_timezone", "STRING">>,
           <<"first_seen", "TIMESTAMP">>, <<"last_seen", "TIMESTAMP">>, <<"time", "TIMESTAMP">>,
           <<"day_month_year_local", "STRING">>, <<"day_of_week", "STRING">>,
           <<"day_of_week_local", "STRING">>, <<"hour_local", "INT64">>,
           <<"minute_local", "INT64">>, <<"source", "STRING">>, <<"super_type", "STRING">>,
           <<"type", "STRING">>, <<"_id", "STRING">>, <<"_index", "STRING">>,
           <<"meta_row_id", "STRING">>, <<"advertiser_id", "STRING">>, <<"app_id", "STRING">>,
           <<"carrier", "STRING">>, <<"device_brand", "STRING">>, <<"device_model", "STRING">>,
           <<"platform", "STRING">>, <<"user_agent", "STRING">>, <<"locale", "STRING">>,
           <<"entity_age", "INT64">>, <<"entity_id", "STRING">>, <<"entity_type", "STRING">>,
           <<"event_location_accuracy_confidence", "STRING">>,
           <<"event_location_accuracy_score", "INT64">>, <<"horizontal_accuracy", "FLOAT64">>,
           <<"vertical_accuracy", "FLOAT64">>, <<"heading", "FLOAT64">>, <<"speed", "FLOAT64">>,
           <<"loc_at", "STRING">>, <<"ip_v4", "STRING">>,
           <<"connected_wifi_vendor_name", "STRING">>, <<"wifi_bssid", "STRING">>,
           <<"wifi_ssid", "STRING">>, <<"rssi", "INT64">>, <<"satellite_provider", "STRING">>,
           <<"satellite_provider_country", "STRING">>, <<"satellite_provider_type", "STRING">>,
           <<"name", "STRING">>, <<"mac", "STRING">>, <<"tech", "STRING">>,
           <<"device_os", "STRING">>, <<"device_os_version", "STRING">>, <<"ip_v6", "STRING">>,
           <<"site_id", "STRING">>, <<"vendor_name", "STRING">> >>,
      partition_field |->
        "event_date",
      cluster_fields |->
        << "country_code", "satellite_provider", "entity_id" >>,
      has_dedup_key |->
        TRUE,
      dedup_key |->
        << "latitude", "longitude", "event_time", "entity_id" >> ]

\* app/schemas/shadowfleet.py (PORT_EVENTS_*), lines 24-167.  The module defines no DEDUP_KEY:
\* has_dedup_key records that the attribute is missing.
PortEventsSchema ==
    [ columns_to_drop |->
        << "Snet Username" >>,
      column_mapping |->
        << <<"Document ID", "document_id">>, <<"Display Name", "display_name">>,
           <<"City", "city">>, <<"Country", "country">>, <<"Event Time", "event_time">>,
           <<"Event Date", "event_date">>, <<"Last Updated", "last_updated">>,
           <<"Source", "source">>, <<"Super Type", "super_type">>, <<"Type", "type">>,
           <<"_id", "_id">>, <<"_index", "_index">>, <<"Ata", "ata">>, <<"Atd", "atd">>,
           <<"Draught Ata", "draught_ata">>, <<"Draught Atd", "draught_atd">>,
           <<"Draught Change", "draught_change">>, <<"Duration Iso", "duration_iso">>,
           <<"Duration Seconds", "duration_seconds">>, <<"Duration Text", "duration_text">>,
           <<"Entity Cohort", "entity_cohort">>, <<"Event Id", "event_id">>, <<"Imo", "imo">>,
           <<"Latitude", "latitude">>, <<"Longitude", "longitude">>, <<"Mmsi", "mmsi">>,
           <<"Name", "name">>, <<"Port Country", "port_country">>, <<"Port Id", "port_id">>,
           <<"Port Name", "port_name">>, <<"Port Type", "port_type">>,
           <<"Port Unlocode", "port_unlocode">>, <<"State", "state">>,
           <<"Timestamp", "timestamp">>, <<"Update Timestamp", "update_timestamp">>,
           <<"Vessel Callsign", "vessel_callsign">>, <<"Vessel Category", "vessel_category">>,
           <<"Vessel Category Description", "vessel_category_description">>,
           <<"Vessel Id", "vessel_id">>, <<"Vessel Type", "vessel_type">> >>,
      timestamp_columns |->
        << "event_time", "last_updated", "ata", "atd", "timestamp", "update_timestamp" >>,
      float_columns |->
        << "draught_ata", "draught_atd", "draught_change", "latitude", "longitude" >>,
      int_columns |->
        << "duration_seconds" >>,
      string_columns |->
        << "document_id", "display_name", "city", "country", "source", "super_type", "type", "_id",
           "_index", "duration_iso", "duration_text", "entity_cohort", "event_id", "imo", "mmsi",
           "name", "port_country", "port_id", "port_name", "port_type", "port_unlocode", "state",
           "vessel_callsign", "vessel_category", "vessel_category_description", "vessel_id",
           "vessel_type" >>,
      bigquery_schema |->
        << <<"document_id", "STRING">>, <<"display_name", "STRING">>, <<"city", "STRING">>,
           <<"country", "STRING">>, <<"event_time", "TIMESTAMP">>, <<"event_date", "DATE">>,
           <<"last_updated", "TIMESTAMP">>, <<"source", "STRING">>, <<"super_type", "STRING">>,
           <<"type", "STRING">>, <<"_id", "STRING">>, <<"_index", "STRING">>,
           <<"ata", "TIMESTAMP">>, <<"atd", "TIMESTAMP">>, <<"draught_ata", "FLOAT64">>,
           <<"draught_atd", "FLOAT64">>, <<"draught_change", "FLOAT64">>,
           <<"duration_iso", "STRING">>, <<"duration_seconds", "INT64">>,
           <<"duration_text", "STRING">>, <<"entity_cohort", "STRING">>, <<"event_id", "STRING">>,
           <<"imo", "STRING">>, <<"latitude", "FLOAT64">>, <<"longitude", "FLOAT64">>,
           <<"mmsi", "STRING">>, <<"name", "STRING">>, <<"port_country", "STRING">>,
           <<"port_id", "STRING">>, <<"port_name", "STRING">>, <<"port_type", "STRING">>,
           <<"port_unlocode", "STRING">>, <<"state", "STRING">>, <<"timestamp", "TIMESTAMP">>,
           <<"update_timestamp", "TIMESTAMP">>, <<"vessel_callsign", "STRING">>,
           <<"vessel_category", "STRING">>, <<"vessel_category_description", "STRING">>,
           <<"vessel_id", "STRING">>, <<"vessel_type", "STRING">> >>,
      partition_field |->
        "event_date",
      cluster_fields |->
        << "port_country", "vessel_category", "imo" >>,
      has_dedup_key |->
        FALSE,
      dedup_key |->
        << >> ]

\* app/schemas/shadowfleet.py (VESSEL_HISTORY_*), lines 174-319.  The module defines no DEDUP_KEY:
\* has_dedup_key records that the attribute is missing.
VesselHistorySchema ==
    [ columns_to_drop |->
        << "Snet Username", "Class 2 Code", "Registered Owner" >>,
      column_mapping |->
        << <<"Document ID", "document_id">>, <<"Display Name", "display_name">>,
           <<"City", "city">>, <<"Country", "country">>, <<"Event Time", "event_time">>,
           <<"Event Date", "event_date">>, <<"Last Updated", "last_updated">>,
           <<"Source", "source">>, <<"Super Type", "super_type">>, <<"Type", "type">>,
           <<"_id", "_id">>, <<"_index", "_index">>, <<"Built Year", "built_year">>,
           <<"Class 1 Code", "class_1_code">>, <<"Collection Type", "collection_type">>,
           <<"Commercial Owner", "commercial_owner">>, <<"Course Degrees", "course_degrees">>,
           <<"Draught Meters", "draught_meters">>, <<"Entity Cohort", "entity_cohort">>,
           <<"Geohash", "geohash">>, <<"Heading Degrees", "heading_degrees">>,
           <<"Hull Number", "hull_number">>, <<"Imo", "imo">>, <<"Iso Code", "iso_code">>,
           <<"Iso Code Flag", "iso_code_flag">>, <<"Latitude", "latitude">>,
           <<"Length Overall Meters", "length_overall_meters">>, <<"Longitude", "longitude">>,
           <<"Meta Row Id", "meta_row_id">>, <<"Mmsi", "mmsi">>, <<"Name", "name">>,
           <<"Navigation Status", "navigation_status">>,
           <<"Position Timestamp", "position_timestamp">>,
           <<"Raw Destination", "raw_destination">>, <<"Speed Knots", "speed_knots">>,
           <<"Vessel Callsign", "vessel_callsign">>, <<"Vessel Category", "vessel_category">>,
           <<"Vessel Category Description", "vessel_category_description">>,
           <<"Vessel Subtype", "vessel_subtype">>, <<"Vessel Type", "vessel_type">> >>,
      timestamp_columns |->
        << "event_time", "last_updated", "position_timestamp" >>,
      float_columns |->
        << "latitude", "longitude", "speed_knots", "course_degrees", "heading_degrees",
           "draught_meters", "length_overall_meters" >>,
      int_columns |->
        << "built_year" >>,
      string_columns |->
        << "document_id", "display_name", "city", "country", "source", "super_type", "type", "_id",
           "_index", "class_1_code", "collection_type", "commercial_owner", "entity_cohort",
           "geohash", "hull_number", "imo", "iso_code", "iso_code_flag", "meta_row_id", "mmsi",
           "name", "navigation_status", "raw_destination", "vessel_callsign", "vessel_category",
           "vessel_category_description", "vessel_subtype", "vessel_type" >>,
      bigquery_schema |->
        << <<"document_id", "STRING">>, <<"display_name", "STRING">>, <<"city", "STRING">>,
           <<"country", "STRING">>, <<"event_time", "TIMESTAMP">>, <<"event_date", "DATE">>,
           <<"last_updated", "TIMESTAMP">>, <<"source", "STRING">>, <<"super_type", "STRING">>,
           <<"type", "STRING">>, <<"_id", "STRING">>, <<"_index", "STRING">>,
           <<"built_year", "INT64">>, <<"class_1_code", "STRING">>,
           <<"collection_type", "STRING">>, <<"commercial_owner", "STRING">>,
           <<"course_degrees", "FLOAT64">>, <<"draught_meters", "FLOAT64">>,
           <<"entity_cohort", "STRING">>, <<"geohash", "STRING">>,
           <<"heading_degrees", "FLOAT64">>, <<"hull_number", "STRING">>, <<"imo", "STRING">>,
           <<"iso_code", "STRING">>, <<"iso_code_flag", "STRING">>, <<"latitude", "FLOAT64">>,
           <<"length_overall_meters", "FLOAT64">>, <<"longitude", "FLOAT64">>,
           <<"meta_row_id", "STRING">>, <<"mmsi", "STRING">>, <<"name", "STRING">>,
           <<"navigation_status", "STRING">>, <<"position_timestamp", "TIMESTAMP">>,
           <<"raw_destination", "STRING">>, <<"speed_knots", "FLOAT64">>,
           <<"vessel_callsign", "STRING">>, <<"vessel_category", "STRING">>,
           <<"vessel_category_description", "STRING">>, <<"vessel_subtype", "STRING">>,
           <<"vessel_type", "STRING">> >>,
      partition_field |->
        "event_date",
      cluster_fields |->
        << "vessel_category", "imo", "country" >>,
      has_dedup_key |->
        FALSE,
      dedup_key |->
        << >> ]

\* The module attributes get_schema reads for each data type.
SchemaModule(data_type) ==
    CASE data_type = "vhf" -> VhfSchema
      [] data_type = "gps" -> GpsSchema
      [] data_type = "airdefense" -> AirdefenseSchema
      [] data_type = "skytrace" -> SkytraceSchema
      [] data_type = "port_events" -> PortEventsSchema
      [] data_type = "vessel_history" -> VesselHistorySchema

\* get_schema(data_type): builds the SchemaConfig from the module attributes.
\* Reading <module>.DEDUP_KEY raises AttributeError where the module does not
\* define it; a tag outside DataType raises ValueError.
get_schema(data_type) ==
    IF data_type \notin DataType
    THEN [status |-> "raised", exc |-> "ValueError"]
    ELSE IF ~SchemaModule(data_type).has_dedup_key
    THEN [status |-> "raised", exc |-> "AttributeError"]
    ELSE [status |-> "returned", exc |-> None, config |-> SchemaModule(data_type)]

(***************************************************************************)
(* Tables.  A DataFrame is [columns |-> list of names, rows |-> list of    *)
(* rows], a row being a function from the column names to cells.  Cells    *)
(* are strings; NULL stands for NaN / NaT / None.  A raw cell "" is an     *)
(* empty CSV field, which pandas.read_csv reads as NaN.                    *)
(***************************************************************************)
Cell(row, col) == IF col \in DOMAIN row THEN row[col] ELSE NULL

\* pd.to_datetime(x, errors="coerce", utc=True) on one cell: the instant in
\* UTC, NaT when the text is no timestamp.
to_datetime(cell) ==
    CASE cell = "2025-01-01T23:30:00Z" -> "2025-01-01 23:30:00+00:00"
      [] cell = "2025-01-02T08:00:00Z" -> "2025-01-02 08:00:00+00:00"
      [] OTHER -> NULL

\* pd.to_numeric(x, errors="coerce") on one cell: the float, NaN when the
\* text is no number.
to_numeric(cell) ==
    CASE cell = "1.50" -> "1.5"
      [] cell = "2" -> "2.0"
      [] cell = "3.6" -> "3.6"
      [] cell = "1e30" -> "1e+30"
      [] OTHER -> NULL

\* What .astype("Int64") does with a float that no int64 equals: it raises
\* TypeError (cannot safely cast non-equivalent float64 to int64).
CastError == "<TypeError>"

\* .round().astype("Int64") on one parsed cell.
round_int64(num) ==
    CASE num = "1.5" -> "2"
      [] num = "2.0" -> "2"
      [] num = "3.6" -> "4"
      [] num = "1e+30" -> CastError
      [] OTHER -> NULL

\* .astype(str).replace("nan", None) on one cell: NaN prints as "nan".
astype_str(cell) ==
    LET text == IF cell = "" \/ cell = NULL THEN "nan" ELSE cell
    IN  IF text = "nan" THEN NULL ELSE text

\* .dt.date on one parsed timestamp cell.
dt_date(ts) ==
    CASE ts = "2025-01-01 23:30:00+00:00" -> "2025-01-01"
      [] ts = "2025-01-02 08:00:00+00:00" -> "2025-01-02"
      [] OTHER -> NULL

(***************************************************************************)
(* app/transform.py                                                        *)
(***************************************************************************)
\* df.drop(columns=cols_to_drop)
DropColumns(df, schema) ==
    LET keep == SelectSeq(df.columns, LAMBDA c : c \notin Range(schema.columns_to_drop))
    IN  [columns |-> keep,
         rows |-> [i \in DOMAIN df.rows |-> [c \in Range(keep) |-> df.rows[i][c]]]]

\* rename_map = {k: v for k, v in schema.column_mapping.items() if k in df.columns}
RenameOf(schema, c) ==
    LET hits == {i \in DOMAIN schema.column_mapping : schema.column_mapping[i][1] = c}
    IN  IF hits = {} THEN c ELSE schema.column_mapping[CHOOSE i \in hits : TRUE][2]

\* df.rename(columns=rename_map)
RenameColumns(df, schema) ==
    LET renamed == [i \in DOMAIN df.columns |-> RenameOf(schema, df.columns[i])]
        origin(c2) == CHOOSE c \in Range(df.columns) : RenameOf(schema, c) = c2
    IN  [columns |-> renamed,
         rows |-> [i \in DOMAIN df.rows |->
                     [c2 \in Range(renamed) |-> df.rows[i][origin(c2)]]]]

\* The four coercion loops, applied to one cell of column c.
CoerceCell(schema, c, cell) ==
    LET v1 == IF c \in Range(schema.timestamp_columns) THEN to_datetime(cell) ELSE cell
        v2 == IF c \in Range(schema.float_columns) THEN to_numeric(v1) ELSE v1
        v3 == IF c \in Range(schema.int_columns) THEN round_int64(to_numeric(v2)) ELSE v2
        v4 == IF c \in Range(schema.string_columns) THEN astype_str(v3) ELSE v3
    IN  v4

CoerceColumns(df, schema) ==
    [columns |-> df.columns,
     rows |-> [i \in DOMAIN df.rows |->
                 [c \in Range(df.columns) |-> CoerceCell(schema, c, df.rows[i][c])]]]

\* if "event_time" in df.columns: df["event_date"] = ...dt.date
AddEventDate(df) ==
    IF "event_time" \notin Range(df.columns) THEN df
    ELSE LET cols == IF "event_date" \in Range(df.columns) THEN df.columns
                     ELSE Append(df.columns, "event_date")
         IN  [columns |-> cols,
              rows |-> [i \in DOMAIN df.rows |->
                          [c \in Range(cols) |->
                              IF c = "event_date" THEN dt_date(df.rows[i]["event_time"])
                              ELSE df.rows[i][c]]]]

\* The int loop (lines 62-65) raises when a cell of an int column cannot be
\* cast.
CastFails(df, schema) ==
    \E i \in DOMAIN df.rows : \E c \in Range(df.columns) :
        /\ c \in Range(schema.int_columns)
        /\ CoerceCell(schema, c, df.rows[i][c]) = CastError

\* clean_dataframe(df, data_type): the cleaned DataFrame, or TransformError
\* wrapping whatever was raised inside the try block.
clean_dataframe(df, data_type) ==
    LET got == get_schema(data_type)
        renamed == RenameColumns(DropColumns(df, got.config), got.config)
    IN  IF got.status = "raised"
        THEN [status |-> "raised", exc |-> "TransformError", cause |-> got.exc]
        ELSE IF CastFails(renamed, got.config)
        THEN [status |-> "raised", exc |-> "TransformError", cause |-> "TypeError"]
        ELSE [status |-> "returned", exc |-> None, cause |-> None,
              df |-> AddEventDate(CoerceColumns(renamed, got.config))]

(***************************************************************************)
(* app/bigquery_loader.py: the MERGE statement                             *)
(***************************************************************************)
\* filter_schema_to_dataframe: the schema fields whose name is a df column.
filter_schema_to_dataframe(schema, df) ==
    SelectSeq(schema, LAMBDA fld : fld[1] \in Range(df.columns))

\* non_string_columns (lines 146-151)
non_string_columns(schema_config) ==
    Range(schema_config.float_columns) \cup Range(schema_config.timestamp_columns)
        \cup Range(schema_config.int_columns) \cup {schema_config.partition_field}

\* SQL: COALESCE(x, '')
COALESCE(x) == IF x = NULL THEN "" ELSE x

\* SQL: a = b in a join condition is satisfied only when it is TRUE; with a
\* NULL operand it is NULL, hence not satisfied.
SqlEquals(a, b) == a # NULL /\ b # NULL /\ a = b

\* Mutant: every dedup-key column is compared through COALESCE(., '').
OnConditionAllCoalesce(schema_config, col, t, s) ==
    SqlEquals(COALESCE(Cell(t, col)), COALESCE(Cell(s, col)))

\* One entry of on_conditions (lines 153-157) evaluated on destination row t
\* and staged row s.
on_condition(schema_config, col, t, s) ==
    IF col \in non_string_columns(schema_config)
    THEN SqlEquals(Cell(t, col), Cell(s, col))
    ELSE SqlEquals(COALESCE(Cell(t, col)), COALESCE(Cell(s, col)))

\* on_clause = " AND ".join(on_conditions)
on_clause(schema_config, t, s) ==
    \A i \in DOMAIN schema_config.dedup_key :
        on_condition(schema_config, schema_config.dedup_key[i], t, s)

\* Mutant: staged rows are matched against the destination and against the
\* staged rows already inserted by this statement.
MergeInsertedSequential(schema_config, target, source) ==
    LET RECURSIVE ins(_, _)
        ins(k, acc) ==
            IF k > Len(source) THEN acc
            ELSE IF \E j \in DOMAIN target : on_clause(schema_config, target[j], source[k])
                    \/ \E m \in DOMAIN acc : on_clause(schema_config, acc[m], source[k])
                 THEN ins(k + 1, acc)
                 ELSE ins(k + 1, Append(acc, source[k]))
    IN  ins(1, <<>>)

\* Mutant: the statement inserts every staged row (no ON filtering).
MergeInsertedAll(schema_config, target, source) == source

\* The MERGE of lines 160-167: WHEN NOT MATCHED THEN INSERT.  The staged rows
\* that satisfy the ON clause with no row of the target as it is when the
\* statement starts, in staging order.
MergeInserted(schema_config, target, source) ==
    SelectSeq(source, LAMBDA srow :
        ~\E j \in DOMAIN target : on_clause(schema_config, target[j], srow))

(***************************************************************************)
(* Idle values of the variables a specification does not use.              *)
(***************************************************************************)
NoDetection == [status |-> "none", data_type |-> None, table |-> None, exc |-> None]
NoSchemaResult == [status |-> "none", exc |-> None]
EmptyRow == [c \in {} |-> NULL]
NoKeyIn == [data_type |-> None, t |-> EmptyRow, s |-> EmptyRow]
NoTable == [exists |-> FALSE, rows |-> <<>>]
NoDf == [columns |-> <<>>, rows |-> <<>>]
\* A load_to_bigquery call.  state, data_type, table, df, rows_inserted,
\* exc and cause (the __cause__ of exc) are the call's own; dest_before,
\* staging_before, merged, failed_in, create_called and dest_after record
\* what the call found and did, for the properties.
NoCall == [state |-> "NotStarted", data_type |-> None, table |-> None,
           df |-> NoDf, dest_before |-> NoTable, staging_before |-> NoTable,
           merged |-> FALSE, rows_inserted |-> 0, failed_in |-> None,
           exc |-> None, cause |-> None, create_called |-> FALSE,
           dest_after |-> NoTable]
\* ProcessedCSV.  df is kept as its row count df_rows; raised_in records
\* which call raised for this file (None when none did), for the properties.
NoCur == [filename |-> 0, data_type |-> None, table |-> None, df_rows |-> 0,
          rows_loaded |-> 0, error |-> None, raised_in |-> None]

NoTransformIn == [data_type |-> None, df |-> NoDf]
NoTransformOut == [status |-> "none", exc |-> None, cause |-> None, df |-> NoDf]
NoReturn == [raised |-> FALSE, status |-> None, message |-> 0]
NoWebhook == [outcome |-> None, message |-> 0, result |-> NoReturn]
\* A chunk_and_upload call.  total_rows, num_chunks, i and success_count are
\* the call's locals, result is the flag it returns; nonempty and failed
\* count the non-empty chunks met and those not uploaded successfully, for
\* the properties.
NoWatch == [pc |-> "idle", total_rows |-> 0, num_chunks |-> 0, i |-> 0,
            success_count |-> 0, nonempty |-> 0, failed |-> 0, result |-> None]
SideIdle ==
    /\ transform_in = NoTransformIn
    /\ transform_out = NoTransformOut
    /\ webhook = NoWebhook
    /\ watch = NoWatch

DetectIdle ==
    /\ columns = <<>>
    /\ detection = NoDetection
    /\ schema_result = NoSchemaResult

KeyIdle ==
    /\ key_in = NoKeyIn
    /\ key_match = None

Tables == {DETECTION_RULES[i].table : i \in DOMAIN DETECTION_RULES}

RunIdle ==
    /\ SideIdle
    /\ pc = "idle"
    /\ dry_run = FALSE
    /\ n_files = 0
    /\ idx = 0
    /\ processed = <<>>
    /\ total_rows = 0
    /\ cur = NoCur
    /\ call = NoCall
    /\ prev_call = NoCall
    /\ dest = [t \in Tables |-> NoTable]
    /\ staging = [t \in Tables |-> NoTable]
    /\ response = None
    /\ calls = <<>>

(***************************************************************************)
(* SpecDetect: detect_data_type on every column list of at most MaxCols    *)
(* names of ColumnUniverse, then get_schema on the detected data type, as  *)
(* clean_dataframe calls it.                                               *)
(***************************************************************************)
Detect ==
    /\ detection.status = "none"
    /\ detection' = detect_data_type(columns)
    /\ UNCHANGED <<columns, schema_result, key_in, key_match, runVars>>

InitDetect ==
    /\ columns \in BoundedSeq(ColumnUniverse, MaxCols)
    /\ detection = NoDetection
    /\ schema_result = NoSchemaResult
    /\ KeyIdle
    /\ RunIdle

\* clean_dataframe, line 34: schema = get_schema(data_type), with the data
\* type the detector returned.
GetSchema ==
    /\ detection.status = "returned"
    /\ schema_result.status = "none"
    /\ schema_result' = get_schema(detection.data_type)
    /\ UNCHANGED <<columns, detection, key_in, key_match, runVars>>

NextDetect ==
    \/ Detect
    \/ GetSchema

SpecDetect == InitDetect /\ [][NextDetect]_vars

(***************************************************************************)
(* SpecKey: the ON clause on every pair of rows over the dedup-key columns *)
(* of a data type whose schema get_schema returns.                         *)
(***************************************************************************)
\* Cells of a dedup-key column: NULL and two distinct values; a textual
\* column can also hold the empty string.
KeyValues(schema_config, col) ==
    IF col \in non_string_columns(schema_config)
    THEN {NULL, "v1", "v2"}
    ELSE {NULL, "", "v1", "v2"}

KeyRows(schema_config) ==
    LET key == Range(schema_config.dedup_key)
    IN  {r \in [key -> {NULL, "", "v1", "v2"}] :
            \A c \in key : r[c] \in KeyValues(schema_config, c)}

Compare ==
    /\ key_match = None
    /\ key_match' = IF on_clause(get_schema(key_in.data_type).config, key_in.t, key_in.s)
                    THEN "matched" ELSE "not matched"
    /\ UNCHANGED <<key_in, columns, detection, schema_result, runVars>>

InitKey ==
    /\ \E dt \in {d \in DataType : get_schema(d).status = "returned"} :
         \E t \in KeyRows(get_schema(dt).config), s \in KeyRows(get_schema(dt).config) :
            key_in = [data_type |-> dt, t |-> t, s |-> s]
    /\ key_match = None
    /\ DetectIdle
    /\ RunIdle

NextKey == Compare

SpecKey == InitKey /\ [][NextKey]_vars

(***************************************************************************)
(* Spec: conductor.run over one archive.                                   *)
(*                                                                         *)
(* The archive's CSV files are drawn when the loop reaches them, from       *)
(* CsvInputs: the headers below with the listed batches of rows.           *)
(***************************************************************************)
GpsHeader == <<"Document ID", "Event Time", "Emitter Id", "Orientation",
               "Semi Major", "Semi Minor">>
GpsDupHeader == <<"Document ID", "Event Time", "Emitter Id", "Orientation",
                  "Semi Major", "Semi Minor", "Event Time.1">>
SkytraceHeader == <<"Document ID", "Event Time", "Advertiser Id", "Latitude",
                    "Longitude", "Entity Id">>
VhfHeader == <<"Document ID", "Event Time", "Bandwidth">>
UnknownHeader == <<"Document ID", "Event Time", "Unknown Col 1">>

\* Rows are written from seeds.  a: a complete row;  b: the same key values
\* as a, another document;  c: another event time;  n: unparseable numeric
\* cells;  e: empty text cells;  u: unparseable timestamp and numeric cells;
\* o: an integer cell beyond int64.
GpsBatches == {<<>>, <<"a">>, <<"b">>, <<"n">>, <<"a", "a">>, <<"a", "b">>,
               <<"b", "c">>, <<"a", "n">>, <<"n", "n">>}
SkytraceBatches == {<<"a">>, <<"b">>, <<"e">>, <<"e", "e">>}
OtherBatches == {<<"a">>}

RawCell(seed, col) ==
    CASE col = "Document ID" ->
            (CASE seed = "a" -> "doc-1" [] seed = "b" -> "doc-2" [] seed = "c" -> "doc-3"
               [] seed = "n" -> "doc-4" [] OTHER -> "doc-5")
      [] col \in {"Event Time", "Event Time.1"} ->
            (CASE seed = "c" -> "2025-01-02T08:00:00Z"
               [] seed = "u" -> "soon"
               [] OTHER -> "2025-01-01T23:30:00Z")
      [] col \in {"Orientation", "Semi Major", "Semi Minor", "Latitude", "Longitude", "Bandwidth"} ->
            IF seed \in {"n", "u"} THEN "n/a" ELSE "1.50"
      [] col \in {"Num Bursts", "Built Year"} ->
            (CASE seed \in {"n", "u"} -> "n/a"
               [] seed = "o" -> "1e30"
               [] seed = "c" -> "3.6"
               [] OTHER -> "2")
      [] col \in {"event_date", "Event Date"} -> "2024-12-31"
      [] col \in {"Entity Id", "Emitter Id", "Advertiser Id"} ->
            IF seed = "e" THEN "" ELSE "id-7"
      [] OTHER -> "x"

RawTable(header, seeds) ==
    [malformed |-> FALSE,
     columns |-> header,
     rows |-> [i \in DOMAIN seeds |-> [c \in Range(header) |-> RawCell(seeds[i], c)]]]

MalformedCsv == [malformed |-> TRUE, columns |-> <<>>, rows |-> <<>>]

CsvInputs ==
    {MalformedCsv}
        \cup {RawTable(h, sd) : h \in {GpsHeader, GpsDupHeader}, sd \in GpsBatches}
        \cup {RawTable(SkytraceHeader, sd) : sd \in SkytraceBatches}
        \cup {RawTable(h, sd) : h \in {VhfHeader, UnknownHeader}, sd \in OtherBatches}

(***************************************************************************)
(* app/parser.py                                                           *)
(***************************************************************************)
\* "." in col and col.rsplit(".", 1)[1].isdigit(), on the modelled names.
IsDuplicateCol(col) == col \in {"Event Time.1"}

\* parse_csv: the DataFrame without pandas' renamed duplicate columns, or
\* RequestError.
parse_csv(csv) ==
    IF csv.malformed
    THEN [status |-> "raised", exc |-> "RequestError"]
    ELSE LET keep == SelectSeq(csv.columns, LAMBDA c : ~IsDuplicateCol(c))
         IN  [status |-> "returned", exc |-> None,
              df |-> [columns |-> keep,
                      rows |-> [i \in DOMAIN csv.rows |->
                                  [c \in Range(keep) |-> csv.rows[i][c]]]]]

(***************************************************************************)
(* app/conductor.py: _process_single_csv up to the load                    *)
(***************************************************************************)
\* The subclasses of HawkeyeError (app/custom_exceptions.py).
HawkeyeErrors == {"DetectionError", "TransformError", "LoadError", "RequestError",
                  "WatcherError"}

\* Mutant: _process_single_csv has only its first except clause.
CaughtHawkeyeOnly(exc) == exc \in HawkeyeErrors

\* The except clauses of _process_single_csv (lines 123-128) taken together:
\* HawkeyeError, then Exception.
Caught(exc) == exc \in HawkeyeErrors \/ TRUE

\* processed.error: str(e) for a HawkeyeError, "Unexpected error: ..." for
\* any other exception.
ErrorText(exc) ==
    CASE exc \in HawkeyeErrors -> exc
      [] exc = "ValueError" -> "Unexpected error: ValueError"
      [] OTHER -> "Unexpected error"

\* Lines 91-107: parse, detect, transform and the three "Store results"
\* assignments.  step names the call that raised, if one did, and exc what
\* it raised.
Prepare(csv) ==
    LET entry == NoCur
        parsed == parse_csv(csv)
    IN  IF parsed.status = "raised"
        THEN [step |-> "parse", df |-> NoDf, exc |-> parsed.exc, entry |-> entry]
        ELSE
        LET det == detect_data_type(parsed.df.columns)
        IN  IF det.status = "raised"
            THEN [step |-> "detect", df |-> NoDf, exc |-> det.exc, entry |-> entry]
            ELSE
            LET cleaned == clean_dataframe(parsed.df, det.data_type)
            IN  IF cleaned.status = "raised"
                THEN [step |-> "transform", df |-> NoDf, exc |-> cleaned.exc,
                      entry |-> entry]
                ELSE [step |-> "none", df |-> cleaned.df, exc |-> None,
                      entry |-> [entry EXCEPT !.data_type = det.data_type,
                                              !.table = det.table,
                                              !.df_rows = Len(cleaned.df.rows)]]

\* What _process_single_csv can have computed before the load, over all the
\* CSV files of the model.
Prepared == {Prepare(csv) : csv \in CsvInputs}
PreparedFailed == {p \in Prepared : p.step # "none"}
PreparedClean == {p \in Prepared : p.step = "none"}

\* Mutant: total_rows counts the rows of the DataFrame, not the rows loaded.
AddToTotalDfRows(total, entry) ==
    IF entry.error = None THEN total + entry.df_rows ELSE total

\* run, lines 155-156: if processed.success: result.total_rows += rows_loaded
AddToTotal(total, entry) ==
    IF entry.error = None THEN total + entry.rows_loaded ELSE total

(***************************************************************************)
(* Actions of Spec                                                         *)
(***************************************************************************)
\* What the steps of conductor.run and load_to_bigquery leave alone.
pureVars == <<columns, detection, key_in, key_match, schema_result, response, calls,
              sideVars>>
inputVars == <<dry_run, n_files>>
resultVars == <<idx, processed, total_rows>>

\* run, line 146: extract_csv_files raises RequestError (bad ZIP, or no CSV
\* in it); run does not catch it.
ExtractFails ==
    /\ pc = "run"
    /\ pc' = "aborted"
    /\ UNCHANGED <<pureVars, inputVars, resultVars, cur, call, prev_call, dest, staging>>

\* run, line 146: extract_csv_files returns at least one (name, bytes) pair.
Extract ==
    /\ pc = "run"
    /\ \E n \in 1..MaxTables : n_files' = n
    /\ pc' = "loop"
    /\ UNCHANGED <<pureVars, dry_run, resultVars, cur, call, prev_call, dest, staging>>

\* The except clauses around one file, then run's lines 153-156: the entry
\* gets the error, is appended, and the loop goes on.  An exception no
\* clause catches would leave run.
RecordFailure(entry, step, exc) ==
    IF Caught(exc)
    THEN LET failed == [entry EXCEPT !.error = ErrorText(exc), !.raised_in = step]
         IN  /\ processed' = Append(processed, failed)
             /\ total_rows' = AddToTotal(total_rows, failed)
             /\ idx' = idx + 1
             /\ pc' = "loop"
    ELSE /\ pc' = "aborted"
         /\ UNCHANGED resultVars

\* run's lines 153-156 for an entry without error.
RecordSuccess(entry) ==
    /\ processed' = Append(processed, entry)
    /\ total_rows' = AddToTotal(total_rows, entry)
    /\ idx' = idx + 1
    /\ pc' = "loop"

\* One loop iteration whose parse, detect or transform raises.
ProcessCsvFails ==
    /\ pc = "loop"
    /\ idx < n_files
    /\ \E p \in PreparedFailed :
         RecordFailure([p.entry EXCEPT !.filename = idx + 1], p.step, p.exc)
    /\ UNCHANGED <<pureVars, inputVars, cur, call, prev_call, dest, staging>>

\* One loop iteration in dry-run mode: rows_loaded = len(df), no load.
ProcessCsvDryRun ==
    /\ pc = "loop"
    /\ idx < n_files
    /\ dry_run
    /\ \E p \in PreparedClean :
         RecordSuccess([p.entry EXCEPT !.filename = idx + 1,
                                       !.rows_loaded = Len(p.df.rows)])
    /\ UNCHANGED <<pureVars, inputVars, cur, call, prev_call, dest, staging>>

\* Mutant: the load is called whatever dry_run says.
ProcessCsvLoadAlways ==
    /\ pc = "loop"
    /\ idx < n_files
    /\ \E p \in PreparedClean :
         /\ cur' = [p.entry EXCEPT !.filename = idx + 1]
         /\ call' = [NoCall EXCEPT !.data_type = p.entry.data_type,
                                   !.table = p.entry.table,
                                   !.df = p.df,
                                   !.dest_before = dest[p.entry.table],
                                   !.staging_before = staging[p.entry.table]]
    /\ pc' = "ensure"
    /\ UNCHANGED <<pureVars, inputVars, resultVars, prev_call, dest, staging>>

\* One loop iteration up to the call of load_to_bigquery (line 114).
ProcessCsvLoad ==
    /\ pc = "loop"
    /\ idx < n_files
    /\ ~dry_run
    /\ \E p \in PreparedClean :
         /\ cur' = [p.entry EXCEPT !.filename = idx + 1]
         /\ call' = [NoCall EXCEPT !.data_type = p.entry.data_type,
                                   !.table = p.entry.table,
                                   !.df = p.df,
                                   !.dest_before = dest[p.entry.table],
                                   !.staging_before = staging[p.entry.table]]
    /\ pc' = "ensure"
    /\ UNCHANGED <<pureVars, inputVars, resultVars, prev_call, dest, staging>>

\* Mutant: the staging table is dropped when the load fails (cleanup in a
\* finally clause).
RaiseLoadErrorDropStaging(step) ==
    /\ call' = [call EXCEPT !.state = "Failed", !.exc = "LoadError", !.failed_in = step]
    /\ staging' = [staging EXCEPT ![call.table] = NoTable]
    /\ pc' = "return"

\* Mutant: a failure of get_or_create_table is swallowed and the call goes on
\* to the staging write.
RaiseLoadErrorContinue(step) ==
    /\ call' = [call EXCEPT !.state = "Failed", !.exc = "LoadError", !.failed_in = step]
    /\ staging' = staging
    /\ pc' = IF step = "ensure" THEN "stage" ELSE "return"

\* What a step of load_to_bigquery raises when it fails: the exception of
\* get_schema where the schema lookup fails (lines 44, 122), an error of the
\* BigQuery client otherwise.
UnderlyingError(step) ==
    IF step = "ensure" /\ get_schema(call.data_type).status = "raised"
    THEN get_schema(call.data_type).exc
    ELSE "GoogleAPIError"

\* Mutant: the except clause re-raises what it caught.
RaiseUnwrapped(step) ==
    /\ call' = [call EXCEPT !.state = "Failed", !.exc = UnderlyingError(step),
                            !.failed_in = step]
    /\ staging' = staging
    /\ pc' = "return"

\* The except clause of load_to_bigquery (lines 185-187): whatever was raised
\* inside the try block leaves as LoadError (raise ... from e); nothing is
\* undone.
RaiseLoadError(step) ==
    /\ call' = [call EXCEPT !.state = "Failed", !.exc = "LoadError", !.failed_in = step,
                            !.cause = UnderlyingError(step)]
    /\ staging' = staging
    /\ pc' = "return"

\* get_or_create_table, lines 53-64: the table create_table makes, with the
\* schema's columns, day partitioning on partition_field and clustering on
\* cluster_fields.
create_table(schema_config) ==
    [exists |-> TRUE, rows |-> <<>>,
     layout |-> [schema |-> schema_config.bigquery_schema,
                 partitioning_type |-> "DAY",
                 partition_field |-> schema_config.partition_field,
                 clustering_fields |-> schema_config.cluster_fields]]

\* get_or_create_table: get_table returns the table, or it raises because
\* the table is not there and the table is created.
EnsureDestination ==
    /\ pc = "ensure"
    /\ get_schema(call.data_type).status = "returned"
    /\ dest' = [dest EXCEPT ![call.table] =
                   IF @.exists THEN @
                   ELSE create_table(get_schema(call.data_type).config)]
    /\ call' = [call EXCEPT !.state = "DestinationEnsured",
                            !.create_called = ~dest[call.table].exists]
    /\ pc' = "stage"
    /\ UNCHANGED <<pureVars, inputVars, resultVars, cur, prev_call, staging>>

\* get_or_create_table, lines 46-51: get_table raises although the table is
\* there (the service is unavailable, access is denied, the request times
\* out); `except Exception` takes it for a missing table and goes on to
\* create_table.
GetTableFails ==
    /\ pc = "ensure"
    /\ get_schema(call.data_type).status = "returned"
    /\ dest[call.table].exists
    /\ call' = [call EXCEPT !.create_called = TRUE]
    /\ pc' = "create"
    /\ UNCHANGED <<pureVars, inputVars, resultVars, cur, prev_call, dest, staging>>

\* Line 64 after GetTableFails: create_table on a table that exists raises
\* Conflict, which leaves get_or_create_table.
CreateConflict ==
    /\ pc = "create"
    /\ RaiseLoadError("ensure")
    /\ UNCHANGED <<pureVars, inputVars, resultVars, cur, prev_call, dest>>

\* bigquery.Client(), get_schema or create_table raises.
EnsureFails ==
    /\ pc = "ensure"
    /\ RaiseLoadError("ensure")
    /\ UNCHANGED <<pureVars, inputVars, resultVars, cur, prev_call, dest>>

\* The rows a load job with the filtered schema writes: the df columns that
\* are schema fields.
StagedRows(schema_config, df) ==
    LET fields == filter_schema_to_dataframe(schema_config.bigquery_schema, df)
        names == {fields[i][1] : i \in DOMAIN fields}
    IN  [i \in DOMAIN df.rows |-> [c \in names |-> df.rows[i][c]]]

\* Mutant: the load job appends (WRITE_APPEND) to what the staging table holds.
StageWriteAppend(old, rows) == [exists |-> TRUE, rows |-> old.rows \o rows]

\* load_table_from_dataframe with WRITE_TRUNCATE, then job.result().
StageWrite(old, rows) == [exists |-> TRUE, rows |-> rows]

Stage ==
    /\ pc = "stage"
    /\ staging' = [staging EXCEPT ![call.table] =
                      StageWrite(@, StagedRows(get_schema(call.data_type).config, call.df))]
    /\ call' = [call EXCEPT !.state = "Staged"]
    /\ pc' = "merge"
    /\ UNCHANGED <<pureVars, inputVars, resultVars, cur, prev_call, dest>>

\* The load job raises: a load job is atomic, the staging table stays as it was.
StageFails ==
    /\ pc = "stage"
    /\ RaiseLoadError("stage")
    /\ UNCHANGED <<pureVars, inputVars, resultVars, cur, prev_call, dest>>

\* Mutant: the call reports the number of rows it staged.
NumStagedRows(source, inserted) == Len(source)

\* merge_job.num_dml_affected_rows or 0 (line 173), for a MERGE that read
\* the staged rows `source` and inserted the rows `inserted`.
num_dml_affected_rows(source, inserted) == Len(inserted)

\* client.query(merge_query); merge_job.result(); num_dml_affected_rows or 0
Merge ==
    /\ pc = "merge"
    /\ LET inserted == MergeInserted(get_schema(call.data_type).config,
                                     dest[call.table].rows, staging[call.table].rows)
       IN  /\ dest' = [dest EXCEPT ![call.table].rows = @ \o inserted]
           /\ call' = [call EXCEPT !.state = "Merged", !.merged = TRUE,
                                   !.rows_inserted =
                                       num_dml_affected_rows(staging[call.table].rows, inserted)]
    /\ pc' = "cleanup"
    /\ UNCHANGED <<pureVars, inputVars, resultVars, cur, prev_call, staging>>

\* The MERGE job raises: a DML statement is atomic, the destination stays as
\* it was.
MergeFails ==
    /\ pc = "merge"
    /\ RaiseLoadError("merge")
    /\ UNCHANGED <<pureVars, inputVars, resultVars, cur, prev_call, dest>>

\* client.delete_table(staging_table_id, not_found_ok=True), line 180, and
\* the return of line 183.
Cleanup ==
    /\ pc = "cleanup"
    /\ staging' = [staging EXCEPT ![call.table] = NoTable]
    /\ call' = [call EXCEPT !.state = "CleanedUp"]
    /\ pc' = "return"
    /\ UNCHANGED <<pureVars, inputVars, resultVars, cur, prev_call, dest>>

\* delete_table raises; line 180 is inside the try block.
CleanupFails ==
    /\ pc = "cleanup"
    /\ RaiseLoadError("cleanup")
    /\ UNCHANGED <<pureVars, inputVars, resultVars, cur, prev_call, dest>>

\* load_to_bigquery has returned rows_inserted; _process_single_csv stores it
\* (line 121); run appends the entry and adds to total_rows.
LoadReturns ==
    /\ pc = "return"
    /\ call.state = "CleanedUp"
    /\ RecordSuccess([cur EXCEPT !.rows_loaded = call.rows_inserted])
    /\ prev_call' = [call EXCEPT !.dest_after = dest[call.table]]
    /\ cur' = NoCur
    /\ call' = NoCall
    /\ UNCHANGED <<pureVars, inputVars, dest, staging>>

\* Mutant: a failed load rolls the run back, emptying every destination.
LoadRaisesRollback ==
    /\ pc = "return"
    /\ call.state = "Failed"
    /\ RecordFailure(cur, "load", call.exc)
    /\ prev_call' = NoCall
    /\ cur' = NoCur
    /\ call' = NoCall
    /\ dest' = [t \in Tables |-> [dest[t] EXCEPT !.rows = <<>>]]
    /\ UNCHANGED <<pureVars, inputVars, staging>>

\* load_to_bigquery has raised LoadError; _process_single_csv catches it
\* (lines 123-125); run appends the entry.
LoadRaises ==
    /\ pc = "return"
    /\ call.state = "Failed"
    /\ RecordFailure(cur, "load", call.exc)
    /\ prev_call' = NoCall
    /\ cur' = NoCur
    /\ call' = NoCall
    /\ UNCHANGED <<pureVars, inputVars, dest, staging>>

\* run, lines 158-159: the loop is over, the result is returned.
Finish ==
    /\ pc = "loop"
    /\ idx = n_files
    /\ pc' = "done"
    /\ UNCHANGED <<pureVars, inputVars, resultVars, cur, call, prev_call, dest, staging>>

\* app/cli.py, process_single_file: conductor.run(zip_data, dry_run=True)
\* has raised (exit code 1) or returned its PipelineResult, which is
\* classified in lines 245-250.
cli_exit_code(raised, result) ==
    IF raised THEN "1"
    ELSE IF \A i \in DOMAIN result : result[i].error # None THEN "1"
    ELSE IF \E i \in DOMAIN result : result[i].error # None THEN "2"
    ELSE "0"

CliExit ==
    /\ pc \in {"done", "aborted"}
    /\ dry_run
    /\ response' = cli_exit_code(pc = "aborted", processed)
    /\ pc' = "exited"
    /\ UNCHANGED <<columns, detection, key_in, key_match, schema_result, calls, sideVars,
                   inputVars, resultVars, cur, call, prev_call, dest, staging>>

Init ==
    /\ DetectIdle
    /\ KeyIdle
    /\ SideIdle
    /\ pc = "run"
    /\ dry_run \in BOOLEAN
    /\ n_files = 0
    /\ idx = 0
    /\ processed = <<>>
    /\ total_rows = 0
    /\ cur = NoCur
    /\ call = NoCall
    /\ prev_call = NoCall
    /\ dest = [t \in Tables |-> NoTable]
    /\ staging = [t \in Tables |-> NoTable]
    /\ response = None
    /\ calls = <<>>

Next ==
    \/ ExtractFails
    \/ Extract
    \/ ProcessCsvFails
    \/ ProcessCsvDryRun
    \/ ProcessCsvLoad
    \/ EnsureDestination
    \/ GetTableFails
    \/ CreateConflict
    \/ EnsureFails
    \/ Stage
    \/ StageFails
    \/ Merge
    \/ MergeFails
    \/ Cleanup
    \/ CleanupFails
    \/ LoadReturns
    \/ LoadRaises
    \/ Finish
    \/ CliExit

Spec == Init /\ [][Next]_vars

(***************************************************************************)
(* SpecMain: app/main.py, the Cloud Function entry point, over one         *)
(* archive.  It calls detect_data_type, clean_dataframe and                *)
(* load_to_bigquery itself, inside one try block; `processed` stands for   *)
(* its `results` list.                                                     *)
(***************************************************************************)
\* extract_all_csvs_from_zip reads every CSV with pd.read_csv: a malformed
\* CSV fails the extraction as a whole, and the frames keep the columns as
\* read.  The archives of the model hold the well-formed files without
\* repeated header names.
MainInputs ==
    {RawTable(GpsHeader, sd) : sd \in GpsBatches}
        \cup {RawTable(SkytraceHeader, sd) : sd \in SkytraceBatches}
        \cup {RawTable(h, sd) : h \in {VhfHeader, UnknownHeader}, sd \in OtherBatches}

\* main, lines 74-78: detect, then transform, of one (csv_name, raw_df).
MainPrepare(csv) ==
    LET raw_df == [columns |-> csv.columns, rows |-> csv.rows]
        det == detect_data_type(raw_df.columns)
    IN  IF det.status = "raised"
        THEN [step |-> "detect", df |-> NoDf, exc |-> det.exc, entry |-> NoCur]
        ELSE
        LET cleaned == clean_dataframe(raw_df, det.data_type)
        IN  IF cleaned.status = "raised"
            THEN [step |-> "transform", df |-> NoDf, exc |-> cleaned.exc, entry |-> NoCur]
            ELSE [step |-> "none", df |-> cleaned.df, exc |-> None,
                  entry |-> [NoCur EXCEPT !.data_type = det.data_type,
                                          !.table = det.table,
                                          !.df_rows = Len(cleaned.df.rows)]]

MainPrepared == {MainPrepare(csv) : csv \in MainInputs}
MainPreparedFailed == {p \in MainPrepared : p.step # "none"}
MainPreparedClean == {p \in MainPrepared : p.step = "none"}

\* The except clause of main (lines 99-107): the response of a request
\* whose try block raised.
MainErrorResponse == "error"

\* What can happen to the webhook call: no URL is set; httpx.post returns
\* 2xx; raise_for_status raises for a 4xx/5xx answer; httpx.post raises
\* (timeout, no connection).
WebhookOutcomes == {"not configured", "delivered", "http error", "raised"}

\* Mutant: send_discord_notification without its try/except.
SendNoCatch(outcome) ==
    IF outcome \in {"http error", "raised"}
    THEN [status |-> "raised", value |-> FALSE]
    ELSE [status |-> "returned", value |-> outcome = "delivered"]

\* send_discord_notification (app/discord_hook.py, lines 24-55): True when
\* the message was delivered, False when there is no URL or anything was
\* raised inside the try block.
send_discord_notification(outcome) ==
    [status |-> "returned", value |-> outcome = "delivered"]

\* handle_return (app/discord_hook.py, lines 58-71): sends the message,
\* ignores the result and returns the response dict; an exception of the
\* send would leave handle_return.
handle_return(message, outcome) ==
    IF send_discord_notification(outcome).status = "raised"
    THEN [raised |-> TRUE, status |-> None, message |-> 0]
    ELSE [raised |-> FALSE, status |-> "success", message |-> message]

\* Lines 51-63: determine_input_mode, the download or the upload parsing, or
\* extract_all_csvs_from_zip raises.
MainRequestFails ==
    /\ pc = "main"
    /\ response' = MainErrorResponse
    /\ pc' = "main_done"
    /\ UNCHANGED <<columns, detection, key_in, key_match, schema_result, calls, sideVars,
                   inputVars, resultVars, cur, call, prev_call, dest, staging>>

\* Line 63: extract_all_csvs_from_zip returns at least one frame.
MainExtract ==
    /\ pc = "main"
    /\ \E n \in 1..MaxTables : n_files' = n
    /\ pc' = "main_loop"
    /\ UNCHANGED <<pureVars, dry_run, resultVars, cur, call, prev_call, dest, staging>>

\* One loop iteration whose detect or transform raises: the exception
\* leaves the for loop and reaches line 99.
MainCsvFails ==
    /\ pc = "main_loop"
    /\ idx < n_files
    /\ \E p \in MainPreparedFailed :
         cur' = [p.entry EXCEPT !.filename = idx + 1, !.error = p.exc,
                                !.raised_in = p.step]
    /\ response' = MainErrorResponse
    /\ pc' = "main_done"
    /\ UNCHANGED <<columns, detection, key_in, key_match, schema_result, calls, sideVars,
                   inputVars, resultVars, call, prev_call, dest, staging>>

\* One loop iteration up to the call of load_to_bigquery (line 81).
MainCsvLoad ==
    /\ pc = "main_loop"
    /\ idx < n_files
    /\ \E p \in MainPreparedClean :
         /\ cur' = [p.entry EXCEPT !.filename = idx + 1]
         /\ call' = [NoCall EXCEPT !.data_type = p.entry.data_type,
                                   !.table = p.entry.table,
                                   !.df = p.df,
                                   !.dest_before = dest[p.entry.table],
                                   !.staging_before = staging[p.entry.table]]
    /\ pc' = "ensure"
    /\ UNCHANGED <<pureVars, inputVars, resultVars, prev_call, dest, staging>>

\* Lines 89-90: load_to_bigquery has returned loaded_rows.
MainLoadReturns ==
    /\ pc = "return"
    /\ call.state = "CleanedUp"
    /\ total_rows' = total_rows + call.rows_inserted
    /\ processed' = Append(processed, [cur EXCEPT !.rows_loaded = call.rows_inserted])
    /\ idx' = idx + 1
    /\ pc' = "main_loop"
    /\ prev_call' = [call EXCEPT !.dest_after = dest[call.table]]
    /\ cur' = NoCur
    /\ call' = NoCall
    /\ UNCHANGED <<pureVars, inputVars, dest, staging>>

\* load_to_bigquery has raised LoadError: the exception leaves the for loop
\* and reaches line 99.
MainLoadRaises ==
    /\ pc = "return"
    /\ call.state = "Failed"
    /\ cur' = [cur EXCEPT !.error = call.exc, !.raised_in = "load"]
    /\ response' = MainErrorResponse
    /\ pc' = "main_done"
    /\ prev_call' = NoCall
    /\ call' = NoCall
    /\ UNCHANGED <<columns, detection, key_in, key_match, schema_result, calls, sideVars,
                   inputVars, resultVars, dest, staging>>

\* Lines 93-97: the loop is over; the message (its row total) is sent and
\* returned.  An exception leaving handle_return would reach line 99.
MainReturn ==
    /\ pc = "main_loop"
    /\ idx = n_files
    /\ \E outcome \in WebhookOutcomes :
         LET result == handle_return(total_rows, outcome)
         IN  /\ webhook' = [outcome |-> outcome, message |-> total_rows, result |-> result]
             /\ response' = IF result.raised THEN MainErrorResponse ELSE result.status
    /\ pc' = "main_done"
    /\ UNCHANGED <<columns, detection, key_in, key_match, schema_result, calls,
                   transform_in, transform_out, watch,
                   inputVars, resultVars, cur, call, prev_call, dest, staging>>

InitMain ==
    /\ DetectIdle
    /\ KeyIdle
    /\ SideIdle
    /\ pc = "main"
    /\ dry_run = FALSE
    /\ n_files = 0
    /\ idx = 0
    /\ processed = <<>>
    /\ total_rows = 0
    /\ cur = NoCur
    /\ call = NoCall
    /\ prev_call = NoCall
    /\ dest = [t \in Tables |-> NoTable]
    /\ staging = [t \in Tables |-> NoTable]
    /\ response = None
    /\ calls = <<>>

NextMain ==
    \/ MainRequestFails
    \/ MainExtract
    \/ MainCsvFails
    \/ MainCsvLoad
    \/ EnsureDestination
    \/ GetTableFails
    \/ CreateConflict
    \/ EnsureFails
    \/ Stage
    \/ StageFails
    \/ Merge
    \/ MergeFails
    \/ Cleanup
    \/ CleanupFails
    \/ MainLoadReturns
    \/ MainLoadRaises
    \/ MainReturn

SpecMain == InitMain /\ [][NextMain]_vars

(***************************************************************************)
(* SpecTransform: clean_dataframe applied to one raw table of any data     *)
(* type.                                                                   *)
(***************************************************************************)
GpsCountHeader == <<"Document ID", "Event Time", "Num Bursts", "Orientation">>
GpsOwnDateHeader == <<"Document ID", "Event Time", "event_date", "Num Bursts">>
GpsNoTimeHeader == <<"Document ID", "event_date", "Orientation", "Semi Major">>
GpsBareHeader == <<"Document ID", "Orientation", "Num Bursts">>
VesselHeader == <<"Document ID", "Event Time", "Event Date", "Built Year">>
VesselNoTimeHeader == <<"Document ID", "Event Date", "Built Year">>

TransformSeeds == {"a", "c", "u", "o"}
TransformBatches ==
    {<<>>} \cup {<<x>> : x \in TransformSeeds}
           \cup {<<x, y>> : x \in TransformSeeds, y \in TransformSeeds}

TransformHeaders(data_type) ==
    CASE data_type = "gps" -> {GpsCountHeader, GpsOwnDateHeader, GpsNoTimeHeader, GpsBareHeader}
      [] data_type = "skytrace" -> {SkytraceHeader}
      [] data_type = "vhf" -> {VhfHeader}
      [] data_type = "vessel_history" -> {VesselHeader, VesselNoTimeHeader}
      [] OTHER -> {UnknownHeader}

\* The DataFrame parse_csv hands to clean_dataframe.
RawFrame(header, seeds) ==
    [columns |-> header,
     rows |-> [i \in DOMAIN seeds |-> [c \in Range(header) |-> RawCell(seeds[i], c)]]]

TransformInputs ==
    UNION {{[data_type |-> dt, df |-> RawFrame(h, b)] :
               h \in TransformHeaders(dt),
               b \in IF dt = "gps" THEN TransformBatches ELSE {<<"a">>, <<"u">>}} :
           dt \in DataType}

transformFrame == <<columns, detection, key_in, key_match, schema_result, dry_run,
                    n_files, idx, processed, total_rows, cur, call, prev_call,
                    dest, staging, response, calls, transform_in, webhook, watch>>

\* clean_dataframe returns the cleaned frame (line 78).
TransformReturns ==
    /\ pc = "transform"
    /\ clean_dataframe(transform_in.df, transform_in.data_type).status = "returned"
    /\ transform_out' = clean_dataframe(transform_in.df, transform_in.data_type)
    /\ pc' = "transformed"
    /\ UNCHANGED transformFrame

\* clean_dataframe raises TransformError (lines 80-82).
TransformRaises ==
    /\ pc = "transform"
    /\ clean_dataframe(transform_in.df, transform_in.data_type).status = "raised"
    /\ transform_out' = clean_dataframe(transform_in.df, transform_in.data_type)
    /\ pc' = "transformed"
    /\ UNCHANGED transformFrame

InitTransform ==
    /\ DetectIdle
    /\ KeyIdle
    /\ pc = "transform"
    /\ dry_run = FALSE
    /\ n_files = 0
    /\ idx = 0
    /\ processed = <<>>
    /\ total_rows = 0
    /\ cur = NoCur
    /\ call = NoCall
    /\ prev_call = NoCall
    /\ dest = [t \in Tables |-> NoTable]
    /\ staging = [t \in Tables |-> NoTable]
    /\ response = None
    /\ calls = <<>>
    /\ transform_in \in TransformInputs
    /\ transform_out = NoTransformOut
    /\ webhook = NoWebhook
    /\ watch = NoWatch

NextTransform ==
    \/ TransformReturns
    \/ TransformRaises

SpecTransform == InitTransform /\ [][NextTransform]_vars

(***************************************************************************)
(* SpecWatcher: one chunk_and_upload call of the watcher on a ZIP whose    *)
(* CSV has been read.                                                      *)
(***************************************************************************)
MAX_CHUNK_ROWS == 50000

\* len(df) of the CSV: around one, two and three chunk lengths.
WatchRowCounts == {1, 25000, 49999, 50000, 50001, 75000, 99999, 100000, 100001,
                   125000, 150000, 150001}

\* len(df.iloc[start_idx:end_idx]) of chunk i (lines 92-94).
ChunkLen(total, i) ==
    LET start_idx == i * MAX_CHUNK_ROWS
        end_idx == IF (i + 1) * MAX_CHUNK_ROWS < total
                   THEN (i + 1) * MAX_CHUNK_ROWS ELSE total
    IN  IF end_idx > start_idx THEN end_idx - start_idx ELSE 0

watchFrame == <<columns, detection, key_in, key_match, schema_result, pc, dry_run,
                n_files, idx, processed, total_rows, cur, call, prev_call,
                dest, staging, response, calls, transform_in, transform_out, webhook>>

\* Lines 86-90: the number of chunks.
ChunkCount ==
    /\ watch.pc = "start"
    /\ watch' = [watch EXCEPT !.num_chunks = (watch.total_rows \div MAX_CHUNK_ROWS) + 1,
                              !.pc = "loop"]
    /\ UNCHANGED watchFrame

\* Lines 96-97: an empty chunk is skipped.
ChunkEmpty ==
    /\ watch.pc = "loop"
    /\ watch.i < watch.num_chunks
    /\ ChunkLen(watch.total_rows, watch.i) = 0
    /\ watch' = [watch EXCEPT !.i = @ + 1]
    /\ UNCHANGED watchFrame

\* Lines 99-123: the chunk is posted and answered 200 with status success.
ChunkUploaded ==
    /\ watch.pc = "loop"
    /\ watch.i < watch.num_chunks
    /\ ChunkLen(watch.total_rows, watch.i) > 0
    /\ watch' = [watch EXCEPT !.i = @ + 1, !.success_count = @ + 1, !.nonempty = @ + 1]
    /\ UNCHANGED watchFrame

\* Lines 124-131: the chunk is posted and answered 200 with another status,
\* or with another HTTP code, or the post raises; each is logged only.
ChunkRejected ==
    /\ watch.pc = "loop"
    /\ watch.i < watch.num_chunks
    /\ ChunkLen(watch.total_rows, watch.i) > 0
    /\ watch' = [watch EXCEPT !.i = @ + 1, !.nonempty = @ + 1, !.failed = @ + 1]
    /\ UNCHANGED watchFrame

\* Lines 133-136: the flag returned after the loop.
WatchReturn ==
    /\ watch.pc = "loop"
    /\ watch.i = watch.num_chunks
    /\ watch' = [watch EXCEPT !.result = IF watch.success_count = watch.num_chunks
                                         THEN "True" ELSE "False",
                              !.pc = "returned"]
    /\ UNCHANGED watchFrame

InitWatcher ==
    /\ DetectIdle
    /\ KeyIdle
    /\ pc = "idle"
    /\ dry_run = FALSE
    /\ n_files = 0
    /\ idx = 0
    /\ processed = <<>>
    /\ total_rows = 0
    /\ cur = NoCur
    /\ call = NoCall
    /\ prev_call = NoCall
    /\ dest = [t \in Tables |-> NoTable]
    /\ staging = [t \in Tables |-> NoTable]
    /\ response = None
    /\ calls = <<>>
    /\ transform_in = NoTransformIn
    /\ transform_out = NoTransformOut
    /\ webhook = NoWebhook
    /\ \E n \in WatchRowCounts : watch = [NoWatch EXCEPT !.pc = "start", !.total_rows = n]

NextWatcher ==
    \/ ChunkCount
    \/ ChunkEmpty
    \/ ChunkUploaded
    \/ ChunkRejected
    \/ WatchReturn

SpecWatcher == InitWatcher /\ [][NextWatcher]_vars

(***************************************************************************)
(* SpecLoad: one direct call of load_to_bigquery, with any data type, with *)
(* or without a table name, on a warehouse where the destination tables    *)
(* are missing or exist with an older layout.                              *)
(***************************************************************************)
\* A destination that was created before the schema got its present columns.
LegacyTable ==
    [exists |-> TRUE, rows |-> <<>>,
     layout |-> [schema |-> <<<<"document_id", "STRING">>>>,
                 partitioning_type |-> "DAY",
                 partition_field |-> "event_date",
                 clustering_fields |-> <<>>]]

TableOf(data_type) ==
    DETECTION_RULES[CHOOSE i \in DOMAIN DETECTION_RULES :
                        DETECTION_RULES[i].data_type = data_type].table

\* The frames a caller passes for a data type: the transformed frames of the
\* model for that type, an empty frame where the model has none.
LoadFrames(data_type) ==
    LET frames == {p.df : p \in {q \in PreparedClean : q.entry.data_type = data_type}}
    IN  IF frames = {} THEN {NoDf} ELSE frames

\* load_to_bigquery is called with a table name (lines 106-115).
LoadCall ==
    /\ pc = "call"
    /\ \E dt \in DataType : \E df \in LoadFrames(dt) :
         call' = [NoCall EXCEPT !.data_type = dt,
                                !.table = TableOf(dt),
                                !.df = df,
                                !.dest_before = dest[TableOf(dt)],
                                !.staging_before = staging[TableOf(dt)]]
    /\ pc' = "ensure"
    /\ UNCHANGED <<pureVars, inputVars, resultVars, cur, prev_call, dest, staging>>

\* load_to_bigquery is called without a table name: lines 109-110 raise
\* LoadError("Table name is required") before the try block.
LoadCallNoTable ==
    /\ pc = "call"
    /\ \E dt \in DataType : \E df \in LoadFrames(dt) :
         call' = [NoCall EXCEPT !.data_type = dt,
                                !.df = df,
                                !.state = "Failed",
                                !.exc = "LoadError",
                                !.failed_in = "table"]
    /\ pc' = "return"
    /\ UNCHANGED <<pureVars, inputVars, resultVars, cur, prev_call, dest, staging>>

InitLoad ==
    /\ DetectIdle
    /\ KeyIdle
    /\ SideIdle
    /\ pc = "call"
    /\ dry_run = FALSE
    /\ n_files = 0
    /\ idx = 0
    /\ processed = <<>>
    /\ total_rows = 0
    /\ cur = NoCur
    /\ call = NoCall
    /\ prev_call = NoCall
    /\ \E old \in {NoTable, LegacyTable} : dest = [t \in Tables |-> old]
    /\ staging = [t \in Tables |-> NoTable]
    /\ response = None
    /\ calls = <<>>

NextLoad ==
    \/ LoadCall
    \/ LoadCallNoTable
    \/ EnsureDestination
    \/ GetTableFails
    \/ CreateConflict
    \/ EnsureFails
    \/ Stage
    \/ StageFails
    \/ Merge
    \/ MergeFails
    \/ Cleanup
    \/ CleanupFails

SpecLoad == InitLoad /\ [][NextLoad]_vars

(***************************************************************************)
(* SpecConcurrent: two invocations of load_to_bigquery on the gps          *)
(* destination, as two Cloud Function instances run them.  The code takes  *)
(* no lock, so the steps of the two calls interleave freely; each step is  *)
(* one BigQuery job or API call and is atomic.                             *)
(***************************************************************************)
Invocations == {"inv1", "inv2"}
ConcTable == "gps"
ConcSchema == get_schema("gps").config

\* The batches of the concurrent calls: transformed gps frames whose rows
\* have pairwise different dedup keys and no unparseable cell.
ConcBatches ==
    {Prepare(RawTable(GpsHeader, sd)).df :
        sd \in {<<"a">>, <<"b">>, <<"c">>, <<"a", "c">>, <<"b", "c">>}}

NoFrame == [pc |-> "ensure", df |-> NoDf, rows_inserted |-> 0]

concVars == <<columns, detection, key_in, key_match, schema_result, response,
              sideVars, pc, dry_run, n_files, idx, processed, total_rows, cur, call, prev_call>>

\* get_or_create_table (line 119).
ConcEnsure(i) ==
    /\ calls[i].pc = "ensure"
    /\ dest' = [dest EXCEPT ![ConcTable] =
                   IF @.exists THEN @ ELSE create_table(ConcSchema)]
    /\ calls' = [calls EXCEPT ![i].pc = "stage"]
    /\ UNCHANGED <<concVars, staging>>

\* The staging load job with WRITE_TRUNCATE (lines 127-137).
ConcStage(i) ==
    /\ calls[i].pc = "stage"
    /\ staging' = [staging EXCEPT ![ConcTable] =
                      StageWrite(@, StagedRows(ConcSchema, calls[i].df))]
    /\ calls' = [calls EXCEPT ![i].pc = "merge"]
    /\ UNCHANGED <<concVars, dest>>

\* The MERGE job (lines 160-173), reading the staging table as it is now.
ConcMerge(i) ==
    /\ calls[i].pc = "merge"
    /\ staging[ConcTable].exists
    /\ LET inserted == MergeInserted(ConcSchema, dest[ConcTable].rows,
                                     staging[ConcTable].rows)
       IN  /\ dest' = [dest EXCEPT ![ConcTable].rows = @ \o inserted]
           /\ calls' = [calls EXCEPT ![i].pc = "cleanup",
                                     ![i].rows_inserted =
                                         num_dml_affected_rows(staging[ConcTable].rows,
                                                               inserted)]
    /\ UNCHANGED <<concVars, staging>>

\* The MERGE job fails because the staging table is gone: LoadError.
ConcMergeFails(i) ==
    /\ calls[i].pc = "merge"
    /\ ~staging[ConcTable].exists
    /\ calls' = [calls EXCEPT ![i].pc = "raised"]
    /\ UNCHANGED <<concVars, dest, staging>>

\* delete_table(staging_table_id, not_found_ok=True) and the return.
ConcCleanup(i) ==
    /\ calls[i].pc = "cleanup"
    /\ staging' = [staging EXCEPT ![ConcTable] = NoTable]
    /\ calls' = [calls EXCEPT ![i].pc = "returned"]
    /\ UNCHANGED <<concVars, dest>>

InitConcurrent ==
    /\ DetectIdle
    /\ KeyIdle
    /\ SideIdle
    /\ pc = "idle"
    /\ dry_run = FALSE
    /\ n_files = 0
    /\ idx = 0
    /\ processed = <<>>
    /\ total_rows = 0
    /\ cur = NoCur
    /\ call = NoCall
    /\ prev_call = NoCall
    /\ response = None
    /\ dest = [t \in Tables |-> NoTable]
    /\ staging = [t \in Tables |-> NoTable]
    /\ calls \in [Invocations -> {[NoFrame EXCEPT !.df = b] : b \in ConcBatches}]

NextConcurrent ==
    \E i \in Invocations :
        \/ ConcEnsure(i)
        \/ ConcStage(i)
        \/ ConcMerge(i)
        \/ ConcMergeFails(i)
        \/ ConcCleanup(i)

SpecConcurrent == InitConcurrent /\ [][NextConcurrent]_vars

(***************************************************************************)
(* Properties                                                              *)
(***************************************************************************)
\* The rules whose signature set intersects the column set.
Intersecting(cols) ==
    {i \in DOMAIN DETECTION_RULES :
        Range(DETECTION_RULES[i].required_any) \cap Range(cols) # {}}

SignatureHits(i, cols) ==
    Cardinality(Range(DETECTION_RULES[i].required_any) \cap Range(cols))

DeclaredOrder == <<"vessel_history", "port_events", "airdefense", "skytrace", "vhf", "gps">>

\* C1: when the columns intersect the signature sets of two or more rules,
\* detect_data_type returns the record type and table of the rule declared
\* earliest (vessel_history, port_events, airdefense, skytrace, vhf, gps),
\* however many signature columns each rule matches.
C1_EarliestRuleWins ==
    (detection.status # "none" /\ Cardinality(Intersecting(columns)) >= 2) =>
        LET first == CHOOSE i \in Intersecting(columns) :
                        \A j \in Intersecting(columns) : i <= j
        IN  /\ detection.status = "returned"
            /\ detection.data_type = DeclaredOrder[first]
            /\ DETECTION_RULES[first].data_type = DeclaredOrder[first]
            /\ detection.table = DETECTION_RULES[first].table

\* C1 witness: detection has returned for columns that intersect two rules,
\* the later of which matches more signature columns than the winner.
C1_Witness ==
    /\ detection.status = "returned"
    /\ \E i, j \in Intersecting(columns) :
          /\ i < j
          /\ DETECTION_RULES[i].data_type = detection.data_type
          /\ SignatureHits(j, columns) > SignatureHits(i, columns)

\* C2 (as claimed): when the columns intersect no rule's signature set,
\* detection fails with DetectionError and returns no record type.
C2_RaisesDetectionError ==
    (detection.status # "none" /\ Intersecting(columns) = {}) =>
        /\ detection.status = "raised"
        /\ detection.data_type = None
        /\ detection.exc = "DetectionError"

RECURSIVE SumSuccessful(_)
SumSuccessful(entries) ==
    IF entries = <<>> THEN 0
    ELSE (IF Head(entries).error = None THEN Head(entries).rows_loaded ELSE 0)
            + SumSuccessful(Tail(entries))

\* C3: an exception raised by parse, detect, transform or load for one table
\* is stored in that table's entry; the run never stops in the loop, and
\* returns exactly one entry per extracted table, in extraction order.
C3_FailureIsolation ==
    /\ pc = "aborted" => n_files = 0
    /\ pc \in {"loop", "done"} => Len(processed) = idx
    /\ pc = "done" => Len(processed) = n_files
    /\ \A i \in DOMAIN processed :
          /\ processed[i].filename = i
          /\ processed[i].raised_in # None <=> processed[i].error # None

\* C3 witness: a finished run whose first table failed and whose second
\* table was loaded.
C3_Witness ==
    /\ pc = "done"
    /\ Len(processed) = 2
    /\ processed[1].raised_in # None
    /\ processed[2].error = None
    /\ processed[2].rows_loaded > 0

\* C4: at every point of the run, total_rows is the sum of rows_loaded over
\* the recorded entries without error.
C4_TotalRowsIsSumOfSuccessful ==
    total_rows = SumSuccessful(processed)

\* C4 witness: a finished run with a failed entry and a successful entry
\* that loaded rows.
C4_Witness ==
    /\ pc = "done"
    /\ \E i, j \in DOMAIN processed :
          /\ processed[i].error # None
          /\ processed[j].error = None
          /\ processed[j].rows_loaded > 0
    /\ total_rows > 0

Count(seq, r) == Cardinality({i \in DOMAIN seq : seq[i] = r})

\* The staged row matches no row of the given destination rows.
Fresh(schema_config, rows, srow) ==
    ~\E j \in DOMAIN rows : on_clause(schema_config, rows[j], srow)

NoNullCollisions(schema_config, df) ==
    \A i \in DOMAIN df.rows :
        \A k \in DOMAIN schema_config.dedup_key :
            schema_config.dedup_key[k] \in non_string_columns(schema_config)
                => Cell(df.rows[i], schema_config.dedup_key[k]) # NULL

\* The running call has returned and repeats the batch of the call before
\* it, which was made on an empty destination.
SameBatchTwice ==
    /\ pc = "return"
    /\ call.state = "CleanedUp"
    /\ prev_call.state = "CleanedUp"
    /\ prev_call.table = call.table
    /\ prev_call.df = call.df
    /\ prev_call.dest_before.rows = <<>>
    /\ NoNullCollisions(get_schema(call.data_type).config, call.df)

\* C6: a batch of N rows without NULL in its by-value dedup-key columns,
\* loaded twice in succession on an empty destination, inserts N rows, then
\* 0 rows, and the second load leaves the destination as the first left it.
C6_SecondLoadInsertsNothing ==
    SameBatchTwice =>
        /\ prev_call.rows_inserted = Len(call.df.rows)
        /\ call.rows_inserted = 0
        /\ dest[call.table] = prev_call.dest_after

\* C6 witness: a batch of two rows has been loaded twice in succession.
C6_Witness ==
    /\ SameBatchTwice
    /\ Len(call.df.rows) = 2

\* The data type loaded into a destination table.
TableDataType(table) ==
    DETECTION_RULES[CHOOSE i \in DOMAIN DETECTION_RULES :
                        DETECTION_RULES[i].table = table].data_type

\* C7 (as claimed): no two rows of a destination table have equal dedup
\* keys under the ON clause's equality.
C7_DedupKeyUnique ==
    \A t \in Tables :
        dest[t].rows # <<>> =>
            \A i, j \in DOMAIN dest[t].rows :
                i < j => ~on_clause(get_schema(TableDataType(t)).config,
                                    dest[t].rows[i], dest[t].rows[j])

\* The columns the claim names as compared by value.
ByValueColumns(schema_config) ==
    {c \in Range(schema_config.dedup_key) :
        \/ c \in Range(schema_config.float_columns)
        \/ c \in Range(schema_config.timestamp_columns)
        \/ c \in Range(schema_config.int_columns)
        \/ c = schema_config.partition_field}

\* C8: a staged row and a destination row match when, on every dedup-key
\* column in float_columns, timestamp_columns, int_columns or equal to
\* partition_field, both values are non-null and equal, and on every other
\* dedup-key column the values are equal with NULL read as the empty string;
\* they do not match otherwise.
C8_TypeAwareKeyComparison ==
    key_match # None =>
        LET cfg == SchemaModule(key_in.data_type)
            t == key_in.t
            s == key_in.s
            same(c) ==
                IF c \in ByValueColumns(cfg)
                THEN t[c] # NULL /\ s[c] # NULL /\ t[c] = s[c]
                ELSE (IF t[c] = NULL THEN "" ELSE t[c]) = (IF s[c] = NULL THEN "" ELSE s[c])
        IN  (key_match = "matched") <=> \A c \in Range(cfg.dedup_key) : same(c)

\* C8 witness: two rows that are NULL in a textual dedup-key column have
\* been compared and match.
C8_Witness ==
    /\ key_match = "matched"
    /\ \E c \in Range(SchemaModule(key_in.data_type).dedup_key) :
          /\ c \notin ByValueColumns(SchemaModule(key_in.data_type))
          /\ key_in.t[c] = NULL
          /\ key_in.s[c] = NULL

\* C9 (as claimed): the staging table is deleted only if the merge
\* completed, and when the staging write or the merge fails the staging
\* table exists at the end of the call.
C9_StagingExistsAfterFailure ==
    /\ (call.table # None /\ call.staging_before.exists /\ ~staging[call.table].exists)
          => call.merged
    /\ (pc = "return" /\ call.failed_in \in {"stage", "merge"})
          => staging[call.table].exists

\* C9 (amended): the staging table is deleted only if the merge completed;
\* when the merge fails the staging table exists and holds the batch; when
\* the staging write fails the staging table is as it was before the call.
C9_StagingNeverDroppedOnFailure ==
    /\ (call.table # None /\ call.staging_before.exists /\ ~staging[call.table].exists)
          => call.merged
    /\ (pc = "return" /\ call.failed_in = "merge")
          => staging[call.table] =
                [exists |-> TRUE,
                 rows |-> StagedRows(get_schema(call.data_type).config, call.df)]
    /\ (pc = "return" /\ call.failed_in = "stage")
          => staging[call.table] = call.staging_before

\* C9 witness: a call has ended with a failed merge, a staging table was
\* left by an earlier call, and the staging table holds this call's rows.
C9_Witness ==
    /\ pc = "return"
    /\ call.failed_in = "merge"
    /\ call.staging_before.exists
    /\ staging[call.table].rows # <<>>
    /\ staging[call.table] # call.staging_before

\* C10 (as claimed): when the merge has succeeded, the call raises no error,
\* also when deleting the staging table fails.
C10_CleanupFailureNonFatal ==
    (pc = "return" /\ call.merged) =>
        /\ call.exc = None
        /\ call.state # "Failed"

\* C11: a load call goes NotStarted, DestinationEnsured, Staged, Merged,
\* CleanedUp in this order: the staging write starts only in
\* DestinationEnsured, the merge only in Staged, the cleanup only in Merged.
\* A failure at any step puts the call in Failed, where it returns at once:
\* no later step has acted (the staging table, the destination and the
\* merged flag are as the failing step found them).
C11_LoadStateOrder ==
    /\ pc = "ensure" => call.state = "NotStarted"
    /\ pc = "stage" => call.state = "DestinationEnsured" /\ dest[call.table].exists
    /\ pc = "merge" => call.state = "Staged" /\ staging[call.table].exists
    /\ pc = "cleanup" => call.state = "Merged" /\ call.merged
    /\ pc = "return" => call.state \in {"CleanedUp", "Failed"}
    /\ call.state = "CleanedUp" => call.merged /\ call.failed_in = None
    /\ call.state = "Failed" =>
         /\ pc = "return"
         /\ call.failed_in \in {"ensure", "stage", "merge", "cleanup"}
         /\ call.failed_in = "ensure" =>
                /\ dest[call.table] = call.dest_before
                /\ staging[call.table] = call.staging_before
                /\ ~call.merged
         /\ call.failed_in = "stage" =>
                /\ staging[call.table] = call.staging_before
                /\ dest[call.table].rows = call.dest_before.rows
                /\ ~call.merged
         /\ call.failed_in = "merge" =>
                /\ staging[call.table].exists
                /\ dest[call.table].rows = call.dest_before.rows
                /\ ~call.merged
         /\ call.failed_in = "cleanup" =>
                /\ staging[call.table].exists
                /\ call.merged

\* C11 witness: a call that failed in its merge, after its batch was staged.
C11_Witness ==
    /\ pc = "return"
    /\ call.state = "Failed"
    /\ call.failed_in = "merge"
    /\ Len(call.df.rows) > 0
    /\ Len(staging[call.table].rows) > 0

\* The rows the running call has added to its destination so far.
AddedByCall ==
    SubSeq(dest[call.table].rows, Len(call.dest_before.rows) + 1,
           Len(dest[call.table].rows))

\* C13: once the staging step of a load call is over, the staging table of
\* its destination holds exactly the rows of the call's batch, whatever it
\* held before; and the rows the call merges into the destination are rows
\* of its own batch, never rows an earlier call left in staging.
C13_StagingFullOverwrite ==
    LET batch == StagedRows(get_schema(call.data_type).config, call.df)
    IN  /\ pc = "merge" => staging[call.table] = [exists |-> TRUE, rows |-> batch]
        /\ call.merged =>
              \A i \in DOMAIN AddedByCall : AddedByCall[i] \in Range(batch)

\* C13 witness: the staging step has run on a staging table that an earlier,
\* failed load had left behind with other rows.
C13_Witness ==
    /\ pc = "merge"
    /\ call.staging_before.exists
    /\ Len(call.staging_before.rows) > 0
    /\ Len(call.df.rows) > 0
    /\ \A i \in DOMAIN call.staging_before.rows :
          call.staging_before.rows[i] \notin Range(staging[call.table].rows)

\* C14: the value load_to_bigquery returns is the number of rows its merge
\* added to the destination; the entry built from a returned call carries
\* that number.
C14_ReturnsInsertedCount ==
    /\ call.merged =>
          call.rows_inserted = Len(dest[call.table].rows) - Len(call.dest_before.rows)
    /\ prev_call # NoCall =>
          prev_call.rows_inserted =
              Len(prev_call.dest_after.rows) - Len(prev_call.dest_before.rows)

\* C14 witness: the destination held one row; the call loaded a batch of two
\* rows, one with the key of that row and one with a new key, and returns 1.
C14_Witness ==
    /\ pc = "return"
    /\ call.state = "CleanedUp"
    /\ Len(call.dest_before.rows) = 1
    /\ Len(call.df.rows) = 2
    /\ \E i, j \in DOMAIN call.df.rows :
          /\ i # j
          /\ ~Fresh(get_schema(call.data_type).config, call.dest_before.rows,
                    call.df.rows[i])
          /\ Fresh(get_schema(call.data_type).config, call.dest_before.rows,
                   call.df.rows[j])
    /\ call.rows_inserted = 1

\* C15: in dry-run mode load_to_bigquery is never called, so no warehouse
\* table is created, staged, merged or dropped, and every entry without
\* error reports the row count of the transformed DataFrame as rows_loaded.
C15_DryRunNeverLoads ==
    dry_run =>
        /\ pc \notin {"ensure", "stage", "merge", "cleanup", "return"}
        /\ call = NoCall
        /\ \A t \in Tables : dest[t] = NoTable /\ staging[t] = NoTable
        /\ \A i \in DOMAIN processed :
              processed[i].error = None =>
                  processed[i].rows_loaded = processed[i].df_rows

\* C15 witness: a finished dry run with an entry of two rows.
C15_Witness ==
    /\ dry_run
    /\ pc = "done"
    /\ \E i \in DOMAIN processed :
          /\ processed[i].error = None
          /\ processed[i].df_rows = 2
          /\ processed[i].rows_loaded = 2

\* C20: there is no rollback across tables.  No step of a run removes or
\* changes a recorded entry, lowers total_rows, or removes or changes a row
\* of any destination; a step of a load call touches no destination but the
\* call's own, and a failing step touches none at all.
C20_NoCrossTableRollback ==
    [][ /\ Len(processed') >= Len(processed)
        /\ \A i \in DOMAIN processed : processed'[i] = processed[i]
        /\ total_rows' >= total_rows
        /\ \A t \in Tables :
              /\ dest[t].exists => dest'[t].exists
              /\ Len(dest'[t].rows) >= Len(dest[t].rows)
              /\ SubSeq(dest'[t].rows, 1, Len(dest[t].rows)) = dest[t].rows
              /\ (t # call.table) => dest'[t] = dest[t]
        /\ (call'.state = "Failed" \/ call.state = "Failed") => dest' = dest
      ]_vars

\* C20 witness: a load failed after an earlier table's load had inserted
\* rows; the earlier entry is successful with its count and its rows are in
\* its destination.
C20_Witness ==
    \E i, j \in DOMAIN processed :
        /\ i < j
        /\ processed[i].error = None
        /\ processed[i].rows_loaded > 0
        /\ Len(dest[processed[i].table].rows) >= processed[i].rows_loaded
        /\ processed[j].error = "LoadError"
        /\ processed[j].raised_in = "load"

\* The fields of SchemaConfig.
SchemaConfigFields ==
    {"columns_to_drop", "column_mapping", "timestamp_columns", "float_columns",
     "int_columns", "string_columns", "bigquery_schema", "partition_field",
     "cluster_fields", "dedup_key"}

\* C16 (as claimed): get_schema returns, without raising, a SchemaConfig
\* with every field, dedup_key included, for each of the six data types.
C16_GetSchemaTotal ==
    schema_result.status # "none" =>
        /\ schema_result.status = "returned"
        /\ SchemaConfigFields \subseteq DOMAIN schema_result.config
        /\ schema_result.config.dedup_key # <<>>

\* The rules that have one of their signature columns in the column list.
RulesHit == {i \in DOMAIN DETECTION_RULES : RuleFires(DETECTION_RULES[i], Range(columns))}

\* The destination tables src/tests/test_detector.py expects.
ExpectedTable(data_type) ==
    CASE data_type = "gps" -> "gps_v5"
      [] data_type = "vhf" -> "vhf_v5"
      [] data_type = "airdefense" -> "airdefense_v4"
      [] data_type = "skytrace" -> "skytrace_v2"
      [] data_type = "port_events" -> "shadowfleet_port_events"
      [] data_type = "vessel_history" -> "shadowfleet_vessel_history"

\* C17 (as claimed): a column list with signature columns of exactly one
\* rule detects as that rule's data type, and the table returned is the one
\* the tests name (gps_v5, vhf_v5, airdefense_v4, skytrace_v2,
\* shadowfleet_port_events, shadowfleet_vessel_history).
C17_DetectsTestTables ==
    (detection.status # "none" /\ Cardinality(RulesHit) = 1) =>
        \A i \in RulesHit :
            /\ detection.status = "returned"
            /\ detection.data_type = DETECTION_RULES[i].data_type
            /\ detection.table = ExpectedTable(DETECTION_RULES[i].data_type)

\* C18 (as claimed): when a table of the archive fails in main, every
\* remaining table is still attempted: a request that ends after a table
\* failed has attempted all n_files tables (the idx loaded ones and the
\* failed one), the failed one being the last.
C18_MainAttemptsEveryTable ==
    (pc = "main_done" /\ cur.error # None) => idx + 1 = n_files

\* The classification of a finished run by its entries.
Classification(successes, failures) ==
    IF successes = 0 THEN "failure"
    ELSE IF failures > 0 THEN "partial"
    ELSE "success"

\* What a front end's result stands for: the CLI's exit codes, main's status.
ResultClass(result) ==
    CASE result \in {"1", "error"} -> "failure"
      [] result = "2" -> "partial"
      [] result \in {"0", "success"} -> "success"

\* The CLI's exit code classifies the entries of the run.
CliClassified ==
    pc = "exited" =>
        ResultClass(response) =
            Classification(Cardinality({i \in DOMAIN processed : processed[i].error = None}),
                           Cardinality({i \in DOMAIN processed : processed[i].error # None}))

\* main's status classifies the tables it loaded and the one that failed.
MainClassified ==
    pc = "main_done" =>
        ResultClass(response) =
            Classification(Len(processed), IF cur.error # None THEN 1 ELSE 0)

\* C19 (as claimed): every front end reports failure when no entry
\* succeeded, partial success when some succeeded and some failed, and
\* success when all succeeded: the CLI by its exit code (1 / 2 / 0), the
\* HTTP handler by its status.
C19_FrontEndClassification ==
    /\ CliClassified
    /\ MainClassified

\* C12 (as claimed): two load calls on one destination never interleave
\* (at most one of them is between its ensure step and its end), so that
\* under every schedule both calls return and every row of both batches is
\* in the destination exactly once by dedup key.
C12_LoadsSerialized ==
    /\ Cardinality({i \in Invocations :
                       calls[i].pc \in {"stage", "merge", "cleanup"}}) <= 1
    /\ (\A i \in Invocations : calls[i].pc \in {"returned", "raised"}) =>
          \A i \in Invocations :
              /\ calls[i].pc = "returned"
              /\ \A k \in DOMAIN calls[i].df.rows :
                    Cardinality({j \in DOMAIN dest[ConcTable].rows :
                        on_clause(ConcSchema, dest[ConcTable].rows[j],
                                  StagedRows(ConcSchema, calls[i].df)[k])}) = 1

\* C21: a failure of the ensure, staging or merge step (or of the cleanup,
\* which is in the same try block) leaves load_to_bigquery as a LoadError
\* whose __cause__ is the exception the step raised; a missing table name
\* is a LoadError too; no exception of another type leaves the loader.
C21_OnlyLoadErrorEscapes ==
    /\ call.exc \in {None, "LoadError"}
    /\ call.state = "Failed" =>
          /\ call.exc = "LoadError"
          /\ call.failed_in \in {"ensure", "stage", "merge", "cleanup"} =>
                call.cause = UnderlyingError(call.failed_in)
          /\ call.failed_in = "table" => call.table = None
    /\ call.exc = "LoadError" => call.state = "Failed"

\* C21 witness: the schema lookup inside get_or_create_table raised
\* AttributeError and the call ended with LoadError caused by it.
C21_Witness ==
    /\ pc = "return"
    /\ call.failed_in = "ensure"
    /\ call.exc = "LoadError"
    /\ call.cause = "AttributeError"

\* The layout get_or_create_table gives a table it creates for data_type.
FullLayout(data_type) ==
    [schema |-> SchemaModule(data_type).bigquery_schema,
     partitioning_type |-> "DAY",
     partition_field |-> SchemaModule(data_type).partition_field,
     clustering_fields |-> SchemaModule(data_type).cluster_fields]

\* C22 (as claimed): when the destination exists, the call never calls
\* create_table and the table keeps its layout; when it does not exist, the
\* ensure step calls create_table and the table has the schema's full
\* columns, day partitioning on partition_field and clustering on
\* cluster_fields.
C22_CreatesOnlyWhenAbsent ==
    call.table # None =>
        /\ call.dest_before.exists =>
              /\ ~call.create_called
              /\ dest[call.table].layout = call.dest_before.layout
        /\ (~call.dest_before.exists /\ call.state \notin {"NotStarted", "Failed"}) =>
              /\ call.create_called
              /\ dest[call.table].exists
              /\ dest[call.table].layout = FullLayout(call.data_type)

\* Texts pd.to_datetime and pd.to_numeric parse.
IsTimestampText(cell) == cell \in {"2025-01-01T23:30:00Z", "2025-01-02T08:00:00Z"}
IsNumberText(cell) == cell \in {"1.50", "2", "3.6", "1e30"}

\* The raw column an output column comes from.
OriginOf(c2) ==
    CHOOSE c \in Range(transform_in.df.columns) :
        RenameOf(SchemaModule(transform_in.data_type), c) = c2

\* C23 (as claimed): whatever mix of parseable and unparseable cells the
\* timestamp, float and int columns hold, clean_dataframe returns, keeps the
\* number of rows, and each cell of those columns is null exactly when its
\* text did not parse.
C23_CoercionNeverFails ==
    pc = "transformed" =>
        /\ transform_out.status = "returned"
        /\ Len(transform_out.df.rows) = Len(transform_in.df.rows)
        /\ \A i \in DOMAIN transform_out.df.rows :
           \A c \in Range(transform_out.df.columns) \ {"event_date"} :
              LET schema == SchemaModule(transform_in.data_type)
                  raw == transform_in.df.rows[i][OriginOf(c)]
                  out == transform_out.df.rows[i][c]
              IN  /\ c \in Range(schema.timestamp_columns) =>
                        (out = NULL <=> ~IsTimestampText(raw))
                  /\ c \in Range(schema.float_columns) \cup Range(schema.int_columns) =>
                        (out = NULL <=> ~IsNumberText(raw))

\* The UTC calendar date of a parsed timestamp.
UtcDate(ts) ==
    CASE ts = "2025-01-01 23:30:00+00:00" -> "2025-01-01"
      [] ts = "2025-01-02 08:00:00+00:00" -> "2025-01-02"

\* C24 (as claimed): in every row of the transformer's output, event_date
\* is the UTC calendar date of the row's event_time when event_time parsed,
\* and null otherwise, also when the raw table had its own event date
\* column.
C24_EventDateFromEventTime ==
    (pc = "transformed" /\ transform_out.status = "returned") =>
        \A i \in DOMAIN transform_out.df.rows :
            LET row == transform_out.df.rows[i]
                cols == Range(transform_out.df.columns)
                parsed == "event_time" \in cols /\ row["event_time"] # NULL
            IN  "event_date" \in cols =>
                    row["event_date"] = IF parsed THEN UtcDate(row["event_time"]) ELSE NULL

\* C27 (as claimed): the transformer's output has an event_date column
\* exactly when it has an event_time column.
C27_PartitionColumnIffEventTime ==
    (pc = "transformed" /\ transform_out.status = "returned") =>
        ("event_date" \in Range(transform_out.df.columns)
            <=> "event_time" \in Range(transform_out.df.columns))

\* The column lists with the same set of names as cols: every order, with
\* or without repeated names, up to the length bound.
SameNames(cols) ==
    {other \in BoundedSeq(Range(cols), MaxCols) : Range(other) = Range(cols)}

\* C25: the outcome of detect_data_type is the same for every column list
\* with the same set of names: the same (data type, table) pair, or failure
\* for all of them.
C25_DetectionDependsOnNameSet ==
    detection.status # "none" =>
        \A other \in SameNames(columns) : detect_data_type(other) = detection

\* C25 witness: a list of distinct names that hit two rules, detected; its
\* reordering puts a name of the other rule first.
C25_Witness ==
    /\ detection.status = "returned"
    /\ Len(columns) >= 2
    /\ Cardinality(Range(columns)) = Len(columns)
    /\ Cardinality({i \in DOMAIN DETECTION_RULES :
                       RuleFires(DETECTION_RULES[i], Range(columns))}) >= 2

\* C26: whatever happens to the webhook call (delivered, HTTP error,
\* exception, not configured), handle_return returns status "success" with
\* the run's message, the same for every outcome, and no exception of the
\* notifier reaches main.
C26_NotificationNeverAffectsStatus ==
    (pc = "main_done" /\ webhook.outcome # None) =>
        /\ ~webhook.result.raised
        /\ webhook.result.status = "success"
        /\ webhook.result.message = webhook.message
        /\ response = "success"
        /\ \A other \in WebhookOutcomes :
              handle_return(webhook.message, other) = webhook.result

\* C26 witness: a run that loaded rows ended while the webhook call raised.
C26_Witness ==
    /\ pc = "main_done"
    /\ webhook.outcome = "raised"
    /\ total_rows > 0
    /\ response = "success"

\* C28 (as claimed): for a CSV of at least one row, chunk_and_upload returns
\* success exactly when every non-empty chunk was uploaded successfully.
C28_SuccessIffAllChunksUploaded ==
    (watch.pc = "returned" /\ watch.total_rows >= 1) =>
        (watch.result = "True" <=> watch.failed = 0)

\* Rows in the destination tables: what the run's merges inserted, since the
\* run starts on an empty warehouse.
RECURSIVE RowsIn(_)
RowsIn(tables) ==
    IF tables = {} THEN 0
    ELSE LET t == CHOOSE x \in tables : TRUE
         IN  Len(dest[t].rows) + RowsIn(tables \ {t})

\* C29 (as claimed): in a non-dry run, between tables and at the end,
\* total_rows is the number of rows the run's merges inserted into the
\* destination tables.
C29_TotalRowsCountsEveryInsert ==
    (pc \in {"loop", "done"} /\ ~dry_run) => total_rows = RowsIn(Tables)

\* C30 (as claimed): an entry has data_type and table whenever detection
\* succeeded for its table (the entry succeeded, or its transform or load
\* failed), and has neither when parsing or detection failed.
C30_EntryRecordsDetectedType ==
    \A k \in DOMAIN processed :
        LET entry == processed[k]
        IN  /\ entry.raised_in \in {None, "transform", "load"} =>
                  entry.data_type # None /\ entry.table # None
            /\ entry.raised_in \in {"parse", "detect"} =>
                  entry.data_type = None /\ entry.table = None

====
